---- MODULE Spec2Model ----
\* Ticket lifecycle engine of CLOAKBE: the slot pool, the ticket store, the QR
\* payload codec and the CheckIn / Release / Scan / CreateService use cases, run
\* by concurrent workers against one shared PostgreSQL store.  Every database round trip of a use
\* case is one atomic step; a storage failure of a write is a separate action.
EXTENDS Integers, FiniteSets, Sequences, TLC

\* Spec runs CheckIn and Release calls of two workers on one service; service
\* creation has its own specification, SpecService.
\* ---------------------------------------------------------------- bounds
MaxSlots == 2       \* largest total_slots a CreateService request asks for
MaxTickets == 2     \* ticket ids minted over one behaviour
MaxTime == 2        \* last value of the wall clock (seconds)
RaceWorkers == 3    \* N of the CheckIn race

\* ---------------------------------------------------------------- values
Workers == {"w1", "w2"}
Businesses == {"b1", "b2"}
InitService == "s1"
NewService == "s2"
Null == 0
NoSlot == <<"", 0>>
ZeroPayload == [v |-> 0, tid |-> <<>>, sid |-> <<>>, bid |-> <<>>, slot |-> 0, iat |-> 0, hmac |-> <<>>]
NoReq == [op |-> "none", bid |-> "", sid |-> "", tid |-> 0, name |-> "", total |-> 0, qr |-> <<>>,
          slot |-> NoSlot, hmac |-> <<>>, status |-> "",
          role |-> "", method |-> "", path |-> <<>>]
NoTmp == [slot |-> NoSlot, service_id |-> "", status |-> "", tid |-> 0, iat |-> Null, hmac |-> <<>>, encoded |-> <<>>, payload |-> ZeroPayload, secret |-> <<>>, total |-> 0, index |-> 0, role |-> ""]
NoResult == [kind |-> "none", message |-> "", slot_number |-> 0, ticket_id |-> 0, service_id |-> "", status |-> "", released_at |-> Null, payload |-> ZeroPayload,
             total_slots |-> 0, occupied |-> 0, free |-> 0, handler |-> "",
             business_id |-> "", services |-> <<>>]

SlotStatusFree == "free"
SlotStatusOccupied == "occupied"
TicketStatusActive == "active"
TicketStatusReleased == "released"

VARIABLES services, slots, tickets, lock, now, minted, pc, req, tmp, result, did

vars == <<services, slots, tickets, lock, now, minted, pc, req, tmp, result, did>>

Procs == DOMAIN pc

\* ---------------------------------------------------------------- helpers
Min(S) == CHOOSE x \in S : \A y \in S : x <= y

\* slot rows generated for a service by CreateService
NewSlots(sid, total) ==
  [id \in {<<sid, n>> : n \in 1..total} |->
     [service_id |-> sid, slot_number |-> id[2], status |-> SlotStatusFree]]

Result(kind) == [NoResult EXCEPT !.kind = kind]

\* ---------------------------------------------------------------- tenancy
TrustingOwns(business_id, service) == TRUE

Owns(business_id, service) == service.business_id = business_id

\* ---------------------------------------------------------------- slot pool
SlotsOf(sid) == {id \in DOMAIN slots : slots[id].service_id = sid}

LockedByOther(w, id) == \E o \in Procs \ {w} : lock[o] = id

\* a SELECT ... FOR UPDATE that waits for nothing and skips nothing
UnguardedFreeRows(w, sid) ==
  {id \in SlotsOf(sid) : slots[id].status = SlotStatusFree}

\* WHERE service_id = $1 AND status = 'free' ... FOR UPDATE SKIP LOCKED
FreeRows(w, sid) ==
  {id \in SlotsOf(sid) : slots[id].status = SlotStatusFree /\ ~LockedByOther(w, id)}

\* a candidate query that lost its status filter
AnyRow(w, sid) ==
  IF SlotsOf(sid) = {} THEN NoSlot
  ELSE CHOOSE id \in SlotsOf(sid) : slots[id].slot_number = Min({slots[j].slot_number : j \in SlotsOf(sid)})

\* ORDER BY slot_number ASC LIMIT 1
NextFreeSlot(w, sid) ==
  IF FreeRows(w, sid) = {} THEN NoSlot
  ELSE CHOOSE id \in FreeRows(w, sid) :
         slots[id].slot_number = Min({slots[j].slot_number : j \in FreeRows(w, sid)})

\* an UPDATE that selects its rows by the slot number alone
SlotUpdateStatusByNumber(sl, id, status) ==
  [i \in DOMAIN sl |-> IF sl[i].slot_number = sl[id].slot_number THEN [sl[i] EXCEPT !.status = status] ELSE sl[i]]

SlotUpdateStatus(sl, id, status) == [sl EXCEPT ![id].status = status]

\* ---------------------------------------------------------------- ticket store
StatusOnlyUpdate(tk, id, status, t) == [tk EXCEPT ![id].status = status]

\* SET status = $2, released_at = CASE WHEN $2 = 'released' THEN NOW() ELSE released_at END
TicketUpdateStatus(tk, id, status, t) ==
  [tk EXCEPT ![id].status = status,
             ![id].released_at = IF status = TicketStatusReleased THEN t ELSE @]

TicketCreate(tk, id, row) == tk @@ (id :> row)

\* ---------------------------------------------------------------- strings
\* A Go string is the sequence of its bytes; a byte is written as the
\* one-character string of its ASCII sign.  Unprintable and non-ASCII bytes
\* other than tab, line feed and carriage return are all written Other; the
\* grave accent, which a TLA+ string cannot hold, is written <grave>.
Ascii ==
  <<" ", "!", "\"", "#", "$", "%", "&", "'", "(", ")", "*", "+", ",", "-", ".", "/",
    "0", "1", "2", "3", "4", "5", "6", "7", "8", "9", ":", ";", "<", "=", ">", "?",
    "@", "A", "B", "C", "D", "E", "F", "G", "H", "I", "J", "K", "L", "M", "N", "O",
    "P", "Q", "R", "S", "T", "U", "V", "W", "X", "Y", "Z", "[", "\\", "]", "^", "_",
    "<grave>", "a", "b", "c", "d", "e", "f", "g", "h", "i", "j", "k", "l", "m", "n", "o",
    "p", "q", "r", "s", "t", "u", "v", "w", "x", "y", "z", "{", "|", "}", "~">>

Other == "<?>"

Code ==
  [c \in {Ascii[i] : i \in DOMAIN Ascii} \cup {"\t", "\n", "\r", Other} |->
     IF c = "\t" THEN 9 ELSE IF c = "\n" THEN 10 ELSE IF c = "\r" THEN 13
     ELSE IF c = Other THEN 128
     ELSE 31 + (CHOOSE i \in DOMAIN Ascii : Ascii[i] = c)]

CharOf(n) ==
  IF n = 9 THEN "\t" ELSE IF n = 10 THEN "\n" ELSE IF n = 13 THEN "\r"
  ELSE IF n >= 32 /\ n <= 126 THEN Ascii[n - 31] ELSE Other

Bytes(s) == [i \in 1..Len(s) |-> Code[s[i]]]

Digit == {"0", "1", "2", "3", "4", "5", "6", "7", "8", "9"}

DigitVal(c) == Code[c] - 48

RECURSIVE Natural(_)
Natural(n) ==
  IF n < 10 THEN <<CharOf(48 + n)>> ELSE Append(Natural(n \div 10), CharOf(48 + (n % 10)))

\* the %d verb of fmt and the integer encoder of encoding/json
Decimal(n) == IF n < 0 THEN <<"-">> \o Natural(0 - n) ELSE Natural(n)

HexVal(c) ==
  IF c \in Digit THEN DigitVal(c)
  ELSE IF Code[c] >= 97 THEN Code[c] - 87 ELSE Code[c] - 55

Hex(n) == IF n < 10 THEN CharOf(48 + n) ELSE CharOf(87 + n)

ToLower(c) == IF Code[c] >= 65 /\ Code[c] <= 90 THEN CharOf(Code[c] + 32) ELSE c

\* ---------------------------------------------------------------- base64
\* base64.URLEncoding: the URL alphabet with = padding
encodeURL ==
  <<"A", "B", "C", "D", "E", "F", "G", "H", "I", "J", "K", "L", "M", "N", "O", "P",
    "Q", "R", "S", "T", "U", "V", "W", "X", "Y", "Z", "a", "b", "c", "d", "e", "f",
    "g", "h", "i", "j", "k", "l", "m", "n", "o", "p", "q", "r", "s", "t", "u", "v",
    "w", "x", "y", "z", "0", "1", "2", "3", "4", "5", "6", "7", "8", "9", "-", "_">>

decodeMap == [c \in {encodeURL[i] : i \in DOMAIN encodeURL} |-> (CHOOSE i \in DOMAIN encodeURL : encodeURL[i] = c) - 1]

Sextet(n) == encodeURL[n + 1]

\* an encoder that leaves the padding out
EncodeToStringRaw(b) ==
  LET byte(i) == IF i <= Len(b) THEN b[i] ELSE 0
      sign(j) ==
        LET first == 3 * ((j - 1) \div 4) + 1
            place == (j - 1) % 4 IN
          IF place = 0 THEN Sextet(byte(first) \div 4)
          ELSE IF place = 1 THEN Sextet((byte(first) % 4) * 16 + byte(first + 1) \div 16)
          ELSE IF place = 2 THEN Sextet((byte(first + 1) % 16) * 4 + byte(first + 2) \div 64)
          ELSE Sextet(byte(first + 2) % 64) IN
    [j \in 1..((4 * Len(b) + 2) \div 3) |-> sign(j)]

\* three bytes make four signs; a last group of one or two bytes is padded
EncodeToString(b) ==
  LET byte(i) == IF i <= Len(b) THEN b[i] ELSE 0
      sign(j) ==
        LET first == 3 * ((j - 1) \div 4) + 1
            place == (j - 1) % 4 IN
          IF place = 0 THEN Sextet(byte(first) \div 4)
          ELSE IF place = 1 THEN Sextet((byte(first) % 4) * 16 + byte(first + 1) \div 16)
          ELSE IF place = 2
          THEN IF first + 1 > Len(b) THEN "="
               ELSE Sextet((byte(first + 1) % 16) * 4 + byte(first + 2) \div 64)
          ELSE IF first + 2 > Len(b) THEN "=" ELSE Sextet(byte(first + 2) % 64) IN
    [j \in 1..(4 * ((Len(b) + 2) \div 3)) |-> sign(j)]

\* the decoder ignores carriage returns and line feeds
StripNewlines(s) == SelectSeq(s, LAMBDA c : c \notin {"\r", "\n"})

\* one quantum of four signs; padding is accepted in the last quantum only,
\* and the bits left over before the padding are not checked
Quantum(q, last) ==
  LET sextet(i) == decodeMap[q[i]]
      inAlphabet(i) == q[i] \in DOMAIN decodeMap IN
    IF inAlphabet(1) /\ inAlphabet(2) /\ inAlphabet(3) /\ inAlphabet(4)
    THEN [ok |-> TRUE,
          bytes |-> <<sextet(1) * 4 + sextet(2) \div 16,
                      (sextet(2) % 16) * 16 + sextet(3) \div 4,
                      (sextet(3) % 4) * 64 + sextet(4)>>]
    ELSE IF last /\ inAlphabet(1) /\ inAlphabet(2) /\ inAlphabet(3) /\ q[4] = "="
    THEN [ok |-> TRUE,
          bytes |-> <<sextet(1) * 4 + sextet(2) \div 16,
                      (sextet(2) % 16) * 16 + sextet(3) \div 4>>]
    ELSE IF last /\ inAlphabet(1) /\ inAlphabet(2) /\ q[3] = "=" /\ q[4] = "="
    THEN [ok |-> TRUE, bytes |-> <<sextet(1) * 4 + sextet(2) \div 16>>]
    ELSE [ok |-> FALSE, bytes |-> <<>>]

\* an input whose length without the line breaks is no multiple of four is
\* corrupt, and so is one with a corrupt quantum
DecodeString(s) ==
  LET in == StripNewlines(s)
      count == Len(in) \div 4
      quantum == [k \in 1..count |-> Quantum(SubSeq(in, 4 * k - 3, 4 * k), k = count)]
      length == IF count = 0 THEN 0 ELSE 3 * (count - 1) + Len(quantum[count].bytes) IN
    IF Len(in) % 4 # 0 \/ \E k \in 1..count : ~quantum[k].ok
    THEN [ok |-> FALSE, bytes |-> <<>>]
    ELSE [ok |-> TRUE, bytes |-> [i \in 1..length |-> quantum[(i + 2) \div 3].bytes[((i - 1) % 3) + 1]]]

\* ---------------------------------------------------------------- JSON
\* encoding/json as far as the Payload struct uses it: objects of string and
\* integer members.  Fractions, exponents and nested values are syntax the
\* parser below does not read; no input of the model holds one.
NoValue == [ok |-> FALSE, pos |-> 0, kind |-> "", val |-> <<>>]

\* json.Marshal of one byte of a string, with HTML escaping on
EscapeByte(c) ==
  IF c = "\"" \/ c = "\\" THEN <<"\\", c>>
  ELSE IF c = "\n" THEN <<"\\", "n">>
  ELSE IF c = "\r" THEN <<"\\", "r">>
  ELSE IF c = "\t" THEN <<"\\", "t">>
  ELSE IF c = Other THEN <<"\\", "u", "f", "f", "f", "d">>
  ELSE IF c \in {"<", ">", "&"} THEN <<"\\", "u", "0", "0", Hex(Code[c] \div 16), Hex(Code[c] % 16)>>
  ELSE <<c>>

\* the concatenation of parts[lo], ..., parts[hi]
RECURSIVE Concat(_, _, _)
Concat(parts, lo, hi) ==
  IF lo > hi THEN <<>>
  ELSE IF lo = hi THEN parts[lo]
  ELSE Concat(parts, lo, (lo + hi) \div 2) \o Concat(parts, (lo + hi) \div 2 + 1, hi)

Quote(s) == <<"\"">> \o Concat([i \in 1..Len(s) |-> EscapeByte(s[i])], 1, Len(s)) \o <<"\"">>

Member(name, value) == Quote(name) \o <<":">> \o value

\* json.Marshal(p): the members in the order of the struct's fields
Marshal(p) ==
  <<"{">> \o Member(<<"v">>, Decimal(p.v))
  \o <<",">> \o Member(<<"t", "i", "d">>, Quote(p.tid))
  \o <<",">> \o Member(<<"s", "i", "d">>, Quote(p.sid))
  \o <<",">> \o Member(<<"b", "i", "d">>, Quote(p.bid))
  \o <<",">> \o Member(<<"s", "l", "o", "t">>, Decimal(p.slot))
  \o <<",">> \o Member(<<"i", "a", "t">>, Decimal(p.iat))
  \o <<",">> \o Member(<<"h", "m", "a", "c">>, Quote(p.hmac))
  \o <<"}">>

RECURSIVE skipSpace(_, _)
skipSpace(s, i) == IF i <= Len(s) /\ s[i] \in {" ", "\t", "\n", "\r"} THEN skipSpace(s, i + 1) ELSE i

At(s, i, c) == i <= Len(s) /\ s[i] = c

\* the backslashes that stand in a row right before s[i]
RECURSIVE backslashes(_, _)
backslashes(s, i) == IF i > 1 /\ s[i - 1] = "\\" THEN 1 + backslashes(s, i - 1) ELSE 0

Skip == ""

\* a string literal, read from the byte after its opening quote: it ends at the
\* first quote that no backslash escapes; a backslash escapes the byte after
\* it, \u takes four hexadecimal digits with it
stringLiteral(s, i) ==
  LET escaped(k) == backslashes(s, k) % 2 = 1
      quotes == {k \in i..Len(s) : s[k] = "\"" /\ ~escaped(k)}
      close == Min(quotes)
      unicode(k) == s[k] = "u" /\ escaped(k)
      taken(k) == \E u \in k - 4..k - 1 : u >= i /\ unicode(u)
      wellFormed(k) ==
        IF taken(k) THEN s[k] \in Digit \cup {"a", "b", "c", "d", "e", "f", "A", "B", "C", "D", "E", "F"}
        ELSE IF unicode(k) THEN k + 4 < close
        ELSE IF escaped(k) THEN s[k] \in {"\"", "\\", "/", "b", "f", "n", "r", "t"}
        ELSE s[k] = "\\" \/ Code[s[k]] >= 32
      byte(k) ==
        IF taken(k) THEN Skip
        ELSE IF unicode(k)
        THEN IF HexVal(s[k + 1]) = 0 /\ HexVal(s[k + 2]) = 0
             THEN CharOf(HexVal(s[k + 3]) * 16 + HexVal(s[k + 4])) ELSE Other
        ELSE IF escaped(k)
        THEN IF s[k] = "n" THEN "\n" ELSE IF s[k] = "r" THEN "\r" ELSE IF s[k] = "t" THEN "\t"
             ELSE IF s[k] \in {"b", "f"} THEN Other ELSE s[k]
        ELSE IF s[k] = "\\" THEN Skip ELSE s[k] IN
    IF quotes = {} THEN NoValue
    ELSE IF \E k \in i..close - 1 : ~wellFormed(k) THEN NoValue
    ELSE [ok |-> TRUE, pos |-> close + 1, kind |-> "string",
          val |-> SelectSeq([k \in 1..close - i |-> byte(i + k - 1)], LAMBDA c : c # Skip)]

RECURSIVE digits(_, _, _)
digits(s, i, n) ==
  IF i <= Len(s) /\ s[i] \in Digit THEN digits(s, i + 1, 10 * n + DigitVal(s[i]))
  ELSE [pos |-> i, val |-> n]

\* an integer literal: an optional sign, then 0 or a run of digits that does
\* not start with 0
numberLiteral(s, i) ==
  LET first == IF s[i] = "-" THEN i + 1 ELSE i
      run == digits(s, first, 0) IN
    IF run.pos = first THEN NoValue
    ELSE IF s[first] = "0" /\ run.pos > first + 1 THEN NoValue
    ELSE IF run.pos <= Len(s) /\ s[run.pos] \in {".", "e", "E"} THEN NoValue
    ELSE [ok |-> TRUE, pos |-> run.pos, kind |-> "number",
          val |-> IF s[i] = "-" THEN 0 - run.val ELSE run.val]

keyword(s, i, word, kind) ==
  IF i + Len(word) - 1 <= Len(s) /\ SubSeq(s, i, i + Len(word) - 1) = word
  THEN [ok |-> TRUE, pos |-> i + Len(word), kind |-> kind, val |-> <<>>]
  ELSE NoValue

\* the value of a member
value(s, i) ==
  IF i > Len(s) THEN NoValue
  ELSE IF s[i] = "\"" THEN stringLiteral(s, i + 1)
  ELSE IF s[i] = "-" \/ s[i] \in Digit THEN numberLiteral(s, i)
  ELSE IF s[i] = "n" THEN keyword(s, i, <<"n", "u", "l", "l">>, "null")
  ELSE IF s[i] = "t" THEN keyword(s, i, <<"t", "r", "u", "e">>, "bool")
  ELSE IF s[i] = "f" THEN keyword(s, i, <<"f", "a", "l", "s", "e">>, "bool")
  ELSE NoValue

\* one member stored into the struct: names match without regard to case, null
\* leaves the field alone, a value of the wrong JSON type is an error, a name
\* the struct does not have is skipped
Store(p, name, val) ==
  LET field == [i \in 1..Len(name) |-> ToLower(name[i])]
      int(f) == IF val.kind = "number" THEN [ok |-> TRUE, p |-> [p EXCEPT ![f] = val.val]]
                ELSE [ok |-> FALSE, p |-> p]
      str(f) == IF val.kind = "string" THEN [ok |-> TRUE, p |-> [p EXCEPT ![f] = val.val]]
                ELSE [ok |-> FALSE, p |-> p] IN
    IF val.kind = "null" THEN [ok |-> TRUE, p |-> p]
    ELSE IF field = <<"v">> THEN int("v")
    ELSE IF field = <<"t", "i", "d">> THEN str("tid")
    ELSE IF field = <<"s", "i", "d">> THEN str("sid")
    ELSE IF field = <<"b", "i", "d">> THEN str("bid")
    ELSE IF field = <<"s", "l", "o", "t">> THEN int("slot")
    ELSE IF field = <<"i", "a", "t">> THEN int("iat")
    ELSE IF field = <<"h", "m", "a", "c">> THEN str("hmac")
    ELSE [ok |-> TRUE, p |-> p]

NoObject == [ok |-> FALSE, pos |-> 0, p |-> ZeroPayload]

\* the members of an object, read from the opening quote of a member's name:
\* the name, a colon, the value, and then a comma and the next member or the
\* closing brace
RECURSIVE members(_, _, _)
afterMember(s, stored, next) ==
  IF ~stored.ok THEN NoObject
  ELSE IF At(s, next, ",") THEN members(s, skipSpace(s, next + 1), stored.p)
  ELSE IF At(s, next, "}") THEN [ok |-> TRUE, pos |-> next + 1, p |-> stored.p]
  ELSE NoObject

memberValue(s, p, name, val) ==
  IF ~val.ok THEN NoObject
  ELSE afterMember(s, Store(p, name.val, val), skipSpace(s, val.pos))

memberName(s, p, name, colon) ==
  IF ~name.ok \/ ~At(s, colon, ":") THEN NoObject
  ELSE memberValue(s, p, name, value(s, skipSpace(s, colon + 1)))

afterQuote(s, p, name) == memberName(s, p, name, skipSpace(s, name.pos))

members(s, i, p) ==
  IF ~At(s, i, "\"") THEN NoObject
  ELSE afterQuote(s, p, stringLiteral(s, i + 1))

\* json.Unmarshal(data, &payload) into a zero Payload: the top-level value is
\* an object or null, with nothing but white space around it
object(s, first) ==
  IF At(s, first, "}") THEN [ok |-> TRUE, pos |-> first + 1, p |-> ZeroPayload]
  ELSE members(s, first, ZeroPayload)

null(s, word) ==
  IF word.ok THEN [ok |-> TRUE, pos |-> word.pos, p |-> ZeroPayload] ELSE NoObject

topLevel(s, start) ==
  IF At(s, start, "{") THEN object(s, skipSpace(s, start + 1))
  ELSE null(s, keyword(s, start, <<"n", "u", "l", "l">>, "null"))

unmarshalled(s, parsed) ==
  IF parsed.ok /\ skipSpace(s, parsed.pos) = Len(s) + 1
  THEN [ok |-> TRUE, p |-> parsed.p] ELSE [ok |-> FALSE, p |-> ZeroPayload]

Unmarshal(s) == unmarshalled(s, topLevel(s, skipSpace(s, 1)))

\* ---------------------------------------------------------------- QR payload
\* An identifier is a uuid string; the model writes a uuid as one lower-case
\* letter and one digit.
UUIDString ==
  ("s1" :> <<"s", "1">>) @@ ("s2" :> <<"s", "2">>) @@ ("b1" :> <<"b", "1">>) @@ ("b2" :> <<"b", "2">>)

\* uuid.New().String() of the n-th ticket
TicketUUID(n) == <<"t">> \o Decimal(n)

\* uuid.Parse(s) returns no error
IsUUID(s) == Len(s) = 2 /\ Code[s[1]] >= 97 /\ Code[s[1]] <= 122 /\ s[2] \in Digit

\* businesses table: every business is registered with a fresh uuid HMAC key
HMACKey(b) == <<"k">> \o UUIDString[b]

\* qr.New
Payload(tid, sid, bid, slot, iat) ==
  [v |-> 1, tid |-> tid, sid |-> sid, bid |-> bid, slot |-> slot, iat |-> iat, hmac |-> <<>>]

\* fmt.Sprintf("v=%d&tid=%s&sid=%s&bid=%s&slot=%d&iat=%d", ...)
canonicalString(p) ==
  <<"v", "=">> \o Decimal(p.v)
  \o <<"&", "t", "i", "d", "=">> \o p.tid
  \o <<"&", "s", "i", "d", "=">> \o p.sid
  \o <<"&", "b", "i", "d", "=">> \o p.bid
  \o <<"&", "s", "l", "o", "t", "=">> \o Decimal(p.slot)
  \o <<"&", "i", "a", "t", "=">> \o Decimal(p.iat)

\* HMAC-SHA256 in hex is kept symbolic and collision free: the digest of a
\* message under a key is written key|message
hmacSHA256(secret, message) == secret \o <<"|">> \o message

\* a signature that leaves the secret out
SignUnkeyed(p, secret) ==
  [ok |-> TRUE, p |-> [p EXCEPT !.hmac = hmacSHA256(<<"k">>, canonicalString(p))]]

Sign(p, secret) ==
  IF secret = <<>> THEN [ok |-> FALSE, p |-> p]
  ELSE [ok |-> TRUE, p |-> [p EXCEPT !.hmac = hmacSHA256(secret, canonicalString(p))]]

\* TRUE when Verify returns nil
Verify(p, secret) ==
  /\ p.hmac # <<>>
  /\ secret # <<>>
  /\ hmacSHA256(secret, canonicalString(p)) = p.hmac

Encode(p) == EncodeToString(Bytes(Marshal(p)))

\* Decode: the base64 is decoded, the bytes are unmarshalled, and of the fields
\* read only the ticket id is parsed
decodedPayload(parsed) ==
  IF ~parsed.ok THEN [ok |-> FALSE, err |-> "invalid payload JSON", p |-> ZeroPayload]
  ELSE IF ~IsUUID(parsed.p.tid) THEN [ok |-> FALSE, err |-> "invalid ticket ID format", p |-> ZeroPayload]
  ELSE [ok |-> TRUE, err |-> "", p |-> parsed.p]

decodedData(data) ==
  IF ~data.ok THEN [ok |-> FALSE, err |-> "invalid base64 encoding", p |-> ZeroPayload]
  ELSE decodedPayload(Unmarshal([i \in 1..Len(data.bytes) |-> CharOf(data.bytes[i])]))

Decode(encoded) == decodedData(DecodeString(encoded))

\* ---------------------------------------------------------------- QR strings in use
Rival(bid) == IF bid = UUIDString["b1"] THEN "b2" ELSE "b1"

\* what a client makes of an issued payload: the payload itself, the payload
\* with another business, version, slot or digest written over its own, and
\* the payload signed anew by the other business under its own name
Altered(p) ==
  {p,
   [p EXCEPT !.bid = UUIDString[Rival(p.bid)]],
   [p EXCEPT !.v = 2],
   [p EXCEPT !.slot = p.slot + 1],
   [p EXCEPT !.hmac = <<"0">>],
   Sign([p EXCEPT !.bid = UUIDString[Rival(p.bid)]], HMACKey(Rival(p.bid))).p}

\* a payload the owner of the first service signed for a ticket that was never stored
Unissued == Sign(Payload(<<"t", "0">>, UUIDString[InitService], UUIDString["b1"], 1, 1), HMACKey("b1")).p

NoBase64 == <<"!">>

\* the signed payloads of the CheckIns within the bounds; a CheckIn admitted
\* while another one is signing mints one id more
Signable ==
  {Sign(Payload(TicketUUID(n), UUIDString[s], UUIDString[b], k, t), HMACKey(b)).p :
     n \in 1..MaxTickets + 1, s \in {InitService, NewService}, b \in Businesses,
     k \in 1..MaxSlots, t \in 1..MaxTime}

Shown == UNION {Altered(p) : p \in Signable} \cup {Unissued}

\* Encode and Decode, worked out once for the payloads and strings in use
EncodeTable == [p \in Shown |-> Encode(p)]

DecodeTable == [q \in {EncodeTable[p] : p \in Shown} \cup {NoBase64} |-> Decode(q)]

Encoded(p) == IF p \in Shown THEN EncodeTable[p] ELSE Encode(p)

Decoded(q) == IF q \in DOMAIN DecodeTable THEN DecodeTable[q] ELSE Decode(q)

\* ---------------------------------------------------------------- initial state
InitWith(procs) ==
  /\ services = (InitService :> [business_id |-> "b1", total_slots |-> MaxSlots])
  /\ slots = NewSlots(InitService, MaxSlots)
  /\ tickets = << >>
  /\ lock = [w \in procs |-> NoSlot]
  /\ now = 1
  /\ minted = 0
  /\ pc = [w \in procs |-> "idle"]
  /\ req = [w \in procs |-> NoReq]
  /\ tmp = [w \in procs |-> NoTmp]
  /\ result = [w \in procs |-> NoResult]
  /\ did = [w \in procs |-> {}]

Init == InitWith(Workers)

\* time.Now().Unix() and NOW(): the wall clock never runs backwards; now is the
\* latest reading, the next reading is any later second up to MaxTime
Clock == now..MaxTime

\* a worker takes the next request
Begin(w, r, first) ==
  /\ pc[w] \in {"idle", "done"}
  /\ pc' = [pc EXCEPT ![w] = first]
  /\ req' = [req EXCEPT ![w] = r]
  /\ tmp' = [tmp EXCEPT ![w] = NoTmp]
  /\ result' = [result EXCEPT ![w] = NoResult]
  /\ did' = [did EXCEPT ![w] = {}]

\* a use case returns to its caller
Return(w, res) ==
  /\ pc' = [pc EXCEPT ![w] = "done"]
  /\ result' = [result EXCEPT ![w] = res]

Goto(w, label) == pc' = [pc EXCEPT ![w] = label]

\* ---------------------------------------------------------------- the codec on its own
\* Sign, Encode, Decode and Verify applied to payloads and strings drawn from
\* small sets: identifiers that are uuids and identifiers that are not, some
\* with the separators of the canonical string in them
Codec == "codec"

TicketIDs == {<<"t", "1">>, <<"x">>}

ServiceIDs == {<<"s", "1">>, <<"s", "1", "&", "b", "i", "d", "=", "b", "1">>}

BusinessIDs == {<<"b", "1">>, <<"b", "2">>, <<"b", "1", "&", "b", "i", "d", "=", "b", "2">>}

\* JSON texts that are no object
NotObjects ==
  {<<>>, <<"n", "u", "l", "l">>, <<"7">>, <<"\"", "a", "\"">>, <<"[", "1", "]">>, <<"{">>,
   <<"{", "\"", "v", "\"", ":", "}">>, <<"{", "}", "x">>}

\* the strings handed to Decode after p was signed and encoded, some of them no
\* base64: a sign outside the alphabet, a length that is no multiple of four,
\* padding in the middle; among the others every payload that carries the
\* digest of p
Received(p, encoded) ==
  {encoded, encoded \o <<"\n">>}
  \cup {Encode([v |-> v, tid |-> tid, sid |-> sid, bid |-> bid, slot |-> slot, iat |-> iat, hmac |-> p.hmac]) :
          v \in {1, 2}, tid \in TicketIDs, sid \in ServiceIDs, bid \in BusinessIDs,
          slot \in {1, 2}, iat \in {1, 2}}
  \cup {EncodeToString(Bytes(s)) : s \in NotObjects}
  \cup {<<"!">>, <<"e", "y", "J", "!">>, <<"e", "y", "J">>, <<"e", "=", "=", "=">>,
        <<"e", "w", "=", "=", "e", "w", "=", "=">>}

\* qr.New, Sign and Encode
CodecSign(w) ==
  /\ pc[w] \in {"idle", "done"}
  /\ \E tid \in TicketIDs, sid \in ServiceIDs, bid \in BusinessIDs, secret \in {<<>>, <<"k", "b", "1">>, <<"k", "b", "2">>} :
       LET signed == Sign(Payload(tid, sid, bid, 1, 1), secret) IN
         IF ~signed.ok
         THEN /\ tmp' = [tmp EXCEPT ![w] = NoTmp]
              /\ Return(w, [NoResult EXCEPT !.kind = "error", !.message = "secret cannot be empty"])
         ELSE /\ tmp' = [tmp EXCEPT ![w] = [NoTmp EXCEPT !.payload = signed.p, !.secret = secret,
                                                          !.encoded = Encode(signed.p)]]
              /\ Goto(w, "cd_decode")
              /\ result' = [result EXCEPT ![w] = NoResult]
  /\ req' = [req EXCEPT ![w] = [NoReq EXCEPT !.op = "Codec"]]
  /\ UNCHANGED <<services, slots, tickets, lock, now, minted, did>>

\* Decode of a received string
CodecDecode(w) ==
  /\ pc[w] = "cd_decode"
  /\ \E q \in Received(tmp[w].payload, tmp[w].encoded) :
       LET decoded == Decode(q) IN
         /\ req' = [req EXCEPT ![w].qr = q]
         /\ IF ~decoded.ok
            THEN Return(w, [NoResult EXCEPT !.kind = "error", !.message = decoded.err])
            ELSE /\ result' = [result EXCEPT ![w].payload = decoded.p]
                 /\ Goto(w, "cd_verify")
  /\ UNCHANGED <<services, slots, tickets, lock, now, minted, tmp, did>>

\* Verify of the decoded payload under the secret it was signed with
CodecVerify(w) ==
  /\ pc[w] = "cd_verify"
  /\ Return(w, [result[w] EXCEPT !.kind = "ok",
                                !.message = IF Verify(result[w].payload, tmp[w].secret)
                                            THEN "verified" ELSE "invalid hmac signature"])
  /\ UNCHANGED <<services, slots, tickets, lock, now, minted, req, tmp, did>>

NextCodec ==
  \/ CodecSign(Codec)
  \/ CodecDecode(Codec)
  \/ CodecVerify(Codec)

SpecCodec == InitWith({Codec}) /\ [][NextCodec]_vars

\* ---------------------------------------------------------------- CheckIn
CheckInStart(w) ==
  /\ minted + Cardinality({o \in Procs : req[o].op = "CheckIn" /\
                             pc[o] \in {"ci_service", "ci_business", "ci_select", "ci_update", "ci_commit"}}) < MaxTickets
  /\ \E b \in Businesses, s \in {InitService, NewService} :
       Begin(w, [NoReq EXCEPT !.op = "CheckIn", !.bid = b, !.sid = s], "ci_service")
  /\ UNCHANGED <<services, slots, tickets, lock, now, minted>>

\* serviceRepo.FindByID and the ownership check
CheckInService(w) ==
  /\ pc[w] = "ci_service"
  /\ IF req[w].sid \notin DOMAIN services THEN Return(w, Result("NotFound"))
     ELSE IF ~Owns(req[w].bid, services[req[w].sid]) THEN Return(w, Result("Forbidden"))
     ELSE Goto(w, "ci_business") /\ UNCHANGED result
  /\ UNCHANGED <<services, slots, tickets, lock, now, minted, req, tmp, did>>

\* businessRepo.FindByID
CheckInBusiness(w) ==
  /\ pc[w] = "ci_business"
  /\ Goto(w, "ci_select")
  /\ UNCHANGED <<services, slots, tickets, lock, now, minted, req, tmp, result, did>>

\* a locking SELECT without SKIP LOCKED: it waits while another transaction
\* holds the lowest free row
ClaimSelectWaiting(w) ==
  /\ pc[w] = "ci_select"
  /\ LET free == UnguardedFreeRows(w, req[w].sid)
         id == IF free = {} THEN NoSlot
               ELSE CHOOSE i \in free : slots[i].slot_number = Min({slots[j].slot_number : j \in free}) IN
       IF id = NoSlot
       THEN /\ Return(w, Result("Conflict"))
            /\ UNCHANGED <<lock, tmp>>
       ELSE /\ ~LockedByOther(w, id)
            /\ lock' = [lock EXCEPT ![w] = id]
            /\ tmp' = [tmp EXCEPT ![w].slot = id, ![w].status = slots[id].status]
            /\ Goto(w, "ci_update")
            /\ UNCHANGED result
  /\ UNCHANGED <<services, slots, tickets, now, minted, req, did>>

\* ClaimNextFreeSlot: Begin and the locking SELECT
ClaimSelect(w) ==
  /\ pc[w] = "ci_select"
  /\ LET id == NextFreeSlot(w, req[w].sid) IN
       IF id = NoSlot
       THEN /\ Return(w, Result("Conflict"))
            /\ UNCHANGED <<lock, tmp>>
       ELSE /\ lock' = [lock EXCEPT ![w] = id]
            /\ tmp' = [tmp EXCEPT ![w].slot = id, ![w].status = slots[id].status]
            /\ Goto(w, "ci_update")
            /\ UNCHANGED result
  /\ UNCHANGED <<services, slots, tickets, now, minted, req, did>>

\* ClaimNextFreeSlot: the UPDATE inside the transaction (not yet visible);
\* RETURNING is scanned into the slot record
ClaimUpdate(w) ==
  /\ pc[w] = "ci_update"
  /\ tmp' = [tmp EXCEPT ![w].status = SlotStatusOccupied]
  /\ Goto(w, "ci_commit")
  /\ UNCHANGED <<services, slots, tickets, lock, now, minted, req, result, did>>

\* businessRepo.FindByID fails: the error of Scan is handed on as it is
CheckInBusinessFail(w) ==
  /\ pc[w] = "ci_business"
  /\ Return(w, Result("DatabaseError"))
  /\ UNCHANGED <<services, slots, tickets, lock, now, minted, req, tmp, did>>

\* a failed claim whose UPDATE stays in force
ClaimFailKeeping(w) ==
  /\ pc[w] \in {"ci_update", "ci_commit"}
  /\ slots' = SlotUpdateStatus(slots, tmp[w].slot, SlotStatusOccupied)
  /\ lock' = [lock EXCEPT ![w] = NoSlot]
  /\ Return(w, Result("DatabaseError"))
  /\ UNCHANGED <<services, tickets, now, minted, req, tmp, did>>

\* ClaimNextFreeSlot: the UPDATE or the Commit fails (storage error, cancelled
\* context); the deferred Rollback runs
ClaimFail(w) ==
  /\ pc[w] \in {"ci_update", "ci_commit"}
  /\ lock' = [lock EXCEPT ![w] = NoSlot]
  /\ Return(w, Result("DatabaseError"))
  /\ UNCHANGED <<services, slots, tickets, now, minted, req, tmp, did>>

\* ClaimNextFreeSlot: Commit
ClaimCommit(w) ==
  /\ pc[w] = "ci_commit"
  /\ slots' = SlotUpdateStatus(slots, tmp[w].slot, SlotStatusOccupied)
  /\ lock' = [lock EXCEPT ![w] = NoSlot]
  /\ did' = [did EXCEPT ![w] = @ \cup {"claim"}]
  /\ Goto(w, "ci_sign")
  /\ UNCHANGED <<services, tickets, now, minted, req, tmp, result>>

\* qr.New with a fresh uuid and the current time, Sign and Encode
CheckInSign(w) ==
  /\ pc[w] = "ci_sign"
  /\ minted' = minted + 1
  /\ \E t \in Clock :
       LET p == Payload(TicketUUID(minted + 1), UUIDString[req[w].sid], UUIDString[req[w].bid],
                        slots[tmp[w].slot].slot_number, t)
           signed == Sign(p, HMACKey(req[w].bid)) IN
         /\ now' = t
         /\ IF ~signed.ok
            THEN Return(w, Result("Internal")) /\ UNCHANGED tmp
            ELSE /\ tmp' = [tmp EXCEPT ![w].tid = minted + 1, ![w].iat = p.iat,
                                       ![w].hmac = signed.p.hmac, ![w].encoded = Encoded(signed.p)]
                 /\ Goto(w, "ci_insert")
                 /\ UNCHANGED result
  /\ UNCHANGED <<services, slots, tickets, lock, req, did>>

\* ticketRepo.Create and the successful return
CheckInInsert(w) ==
  /\ pc[w] = "ci_insert"
  /\ tickets' = TicketCreate(tickets, tmp[w].tid,
                  [service_id |-> req[w].sid, slot_id |-> tmp[w].slot,
                   slot_number |-> tmp[w].slot[2], status |-> TicketStatusActive,
                   hmac_digest |-> tmp[w].hmac, issued_at |-> tmp[w].iat,
                   released_at |-> Null])
  /\ did' = [did EXCEPT ![w] = @ \cup {"insert"}]
  /\ Return(w, [NoResult EXCEPT !.kind = "ok", !.slot_number = tmp[w].slot[2], !.ticket_id = tmp[w].tid])
  /\ UNCHANGED <<services, slots, lock, now, minted, req, tmp>>

\* ticketRepo.Create fails (storage error, cancelled context)
CheckInInsertFail(w) ==
  /\ pc[w] = "ci_insert"
  /\ Return(w, Result("DatabaseError"))
  /\ UNCHANGED <<services, slots, tickets, lock, now, minted, req, tmp, did>>

CheckIn(w) ==
  \/ CheckInService(w)
  \/ CheckInBusiness(w)
  \/ ClaimSelect(w)
  \/ ClaimUpdate(w)
  \/ ClaimCommit(w)
  \/ CheckInSign(w)
  \/ CheckInInsert(w)

CheckInFault(w) ==
  \/ CheckInBusinessFail(w)
  \/ ClaimFail(w)
  \/ CheckInInsertFail(w)

\* ---------------------------------------------------------------- Release
ReleaseStart(w) ==
  /\ \E b \in Businesses, t \in 1..MaxTickets :
       Begin(w, [NoReq EXCEPT !.op = "Release", !.bid = b, !.tid = t], "r_find")
  /\ UNCHANGED <<services, slots, tickets, lock, now, minted>>

\* ticketRepo.FindByID
ReleaseFind(w) ==
  /\ pc[w] = "r_find"
  /\ IF req[w].tid \notin DOMAIN tickets
     THEN Return(w, Result("ErrNoRows")) /\ UNCHANGED tmp
     ELSE /\ tmp' = [tmp EXCEPT ![w].slot = tickets[req[w].tid].slot_id,
                                ![w].service_id = tickets[req[w].tid].service_id,
                                ![w].status = tickets[req[w].tid].status]
          /\ Goto(w, "r_service")
          /\ UNCHANGED result
  /\ UNCHANGED <<services, slots, tickets, lock, now, minted, req, did>>

\* serviceRepo.FindByID and the ownership check
ReleaseService(w) ==
  /\ pc[w] = "r_service"
  /\ IF tmp[w].service_id \notin DOMAIN services THEN Return(w, Result("NotFound"))
     ELSE IF ~Owns(req[w].bid, services[tmp[w].service_id]) THEN Return(w, Result("Forbidden"))
     ELSE Goto(w, "r_ticket") /\ UNCHANGED result
  /\ UNCHANGED <<services, slots, tickets, lock, now, minted, req, tmp, did>>

\* ticketRepo.UpdateStatus(ticketID, released)
ReleaseTicketUpdate(w) ==
  /\ pc[w] = "r_ticket"
  /\ \E t \in Clock :
       /\ now' = t
       /\ tickets' = TicketUpdateStatus(tickets, req[w].tid, TicketStatusReleased, t)
  /\ did' = [did EXCEPT ![w] = @ \cup {"ticket_update"}]
  /\ Goto(w, "r_slot")
  /\ UNCHANGED <<services, slots, lock, minted, req, tmp, result>>

\* a Release that returns without the slot update
ReleaseTicketOnly(w) ==
  /\ pc[w] = "r_slot"
  /\ Return(w, Result("ok"))
  /\ UNCHANGED <<services, slots, tickets, lock, now, minted, req, tmp, did>>

\* slotRepo.UpdateStatus(ticket.SlotID, free); the UPDATE waits for a row lock
ReleaseSlotUpdate(w) ==
  /\ pc[w] = "r_slot"
  /\ IF tmp[w].slot # NoSlot
     THEN /\ ~LockedByOther(w, tmp[w].slot)
          /\ slots' = SlotUpdateStatus(slots, tmp[w].slot, SlotStatusFree)
          /\ did' = [did EXCEPT ![w] = @ \cup {"slot_update"}]
     ELSE UNCHANGED <<slots, did>>
  /\ Return(w, Result("ok"))
  /\ UNCHANGED <<services, tickets, lock, now, minted, req, tmp>>

\* one of the two UPDATE statements of Release fails
ReleaseFail(w) ==
  /\ pc[w] \in {"r_ticket", "r_slot"}
  /\ Return(w, Result("DatabaseError"))
  /\ UNCHANGED <<services, slots, tickets, lock, now, minted, req, tmp, did>>

Release(w) ==
  \/ ReleaseFind(w)
  \/ ReleaseService(w)
  \/ ReleaseTicketUpdate(w)
  \/ ReleaseSlotUpdate(w)

\* ---------------------------------------------------------------- CreateService
CreateServiceStart(w) ==
  /\ NewService \notin DOMAIN services
  /\ \A o \in Procs : req[o].op = "CreateService" => pc[o] = "done"
  /\ \E b \in Businesses, n \in {"", "cloak"}, k \in 0..MaxSlots :
       Begin(w, [NoReq EXCEPT !.op = "CreateService", !.bid = b, !.sid = NewService,
                              !.name = n, !.total = k], "cs_validate")
  /\ UNCHANGED <<services, slots, tickets, lock, now, minted>>

\* a validation that looks at the name alone
CreateServiceNameOnly(w) ==
  /\ pc[w] = "cs_validate"
  /\ IF req[w].name = "" THEN Return(w, Result("Validation"))
     ELSE Goto(w, "cs_service") /\ UNCHANGED result
  /\ UNCHANGED <<services, slots, tickets, lock, now, minted, req, tmp, did>>

\* request validation and businessRepo.FindByID
CreateServiceValidate(w) ==
  /\ pc[w] = "cs_validate"
  /\ IF req[w].name = "" \/ req[w].total <= 0 THEN Return(w, Result("Validation"))
     ELSE Goto(w, "cs_service") /\ UNCHANGED result
  /\ UNCHANGED <<services, slots, tickets, lock, now, minted, req, tmp, did>>

\* serviceRepo.Create
CreateServiceInsert(w) ==
  /\ pc[w] = "cs_service"
  /\ services' = services @@ (req[w].sid :> [business_id |-> req[w].bid, total_slots |-> req[w].total])
  /\ did' = [did EXCEPT ![w] = @ \cup {"service_insert"}]
  /\ Goto(w, "cs_slots")
  /\ UNCHANGED <<slots, tickets, lock, now, minted, req, tmp, result>>

\* slotRepo.CreateBatch
CreateServiceSlots(w) ==
  /\ pc[w] = "cs_slots"
  /\ slots' = slots @@ NewSlots(req[w].sid, req[w].total)
  /\ did' = [did EXCEPT ![w] = @ \cup {"slot_batch"}]
  /\ Return(w, Result("ok"))
  /\ UNCHANGED <<services, tickets, lock, now, minted, req, tmp>>

\* serviceRepo.Create or slotRepo.CreateBatch fails
CreateServiceFail(w) ==
  /\ pc[w] \in {"cs_service", "cs_slots"}
  /\ Return(w, Result("DatabaseError"))
  /\ UNCHANGED <<services, slots, tickets, lock, now, minted, req, tmp, did>>

CreateService(w) ==
  \/ CreateServiceValidate(w)
  \/ CreateServiceInsert(w)
  \/ CreateServiceSlots(w)

\* ---------------------------------------------------------------- GetServiceStats
StatsStart(w) ==
  /\ \E b \in Businesses, s \in {InitService, NewService} :
       Begin(w, [NoReq EXCEPT !.op = "GetServiceStats", !.bid = b, !.sid = s], "st_service")
  /\ UNCHANGED <<services, slots, tickets, lock, now, minted>>

\* serviceRepo.FindByID and the ownership check
StatsService(w) ==
  /\ pc[w] = "st_service"
  /\ IF req[w].sid \notin DOMAIN services THEN Return(w, Result("NotFound")) /\ UNCHANGED tmp
     ELSE IF ~Owns(req[w].bid, services[req[w].sid]) THEN Return(w, Result("Forbidden")) /\ UNCHANGED tmp
     ELSE /\ tmp' = [tmp EXCEPT ![w].total = services[req[w].sid].total_slots]
          /\ Goto(w, "st_count")
          /\ UNCHANGED result
  /\ UNCHANGED <<services, slots, tickets, lock, now, minted, req, did>>

\* SELECT COUNT(*) total, COUNT(CASE WHEN status = 'occupied' THEN 1 END) occupied
CountSlotsByStatus(sid) ==
  [total |-> Cardinality(SlotsOf(sid)),
   occupied |-> Cardinality({id \in SlotsOf(sid) : slots[id].status = SlotStatusOccupied})]

\* slotRepo.CountSlotsByStatus and the response
StatsCount(w) ==
  /\ pc[w] = "st_count"
  /\ Return(w, [NoResult EXCEPT !.kind = "ok", !.service_id = req[w].sid,
                                !.total_slots = tmp[w].total,
                                !.occupied = CountSlotsByStatus(req[w].sid).occupied,
                                !.free = CountSlotsByStatus(req[w].sid).total
                                         - CountSlotsByStatus(req[w].sid).occupied])
  /\ UNCHANGED <<services, slots, tickets, lock, now, minted, req, tmp, did>>

GetServiceStats(w) ==
  \/ StatsService(w)
  \/ StatsCount(w)

\* ---------------------------------------------------------------- GetService, ListServices
GetServiceStart(w) ==
  /\ \E b \in Businesses, s \in {InitService, NewService} :
       Begin(w, [NoReq EXCEPT !.op = "GetService", !.bid = b, !.sid = s], "gs_service")
  /\ UNCHANGED <<services, slots, tickets, lock, now, minted>>

\* serviceRepo.FindByID, the ownership check and the response
GetService(w) ==
  /\ pc[w] = "gs_service"
  /\ IF req[w].sid \notin DOMAIN services THEN Return(w, Result("NotFound"))
     ELSE IF ~Owns(req[w].bid, services[req[w].sid]) THEN Return(w, Result("Forbidden"))
     ELSE Return(w, [NoResult EXCEPT !.kind = "ok", !.service_id = req[w].sid,
                                     !.business_id = services[req[w].sid].business_id,
                                     !.total_slots = services[req[w].sid].total_slots])
  /\ UNCHANGED <<services, slots, tickets, lock, now, minted, req, tmp, did>>

ListServicesStart(w) ==
  /\ \E b \in Businesses :
       Begin(w, [NoReq EXCEPT !.op = "ListServices", !.bid = b], "ls_list")
  /\ UNCHANGED <<services, slots, tickets, lock, now, minted>>

\* SELECT ... FROM services WHERE business_id = $1 ORDER BY created_at DESC:
\* the new service is created after the initial one
ListByBusinessID(businessID) ==
  LET row(sid) == [id |-> sid, business_id |-> services[sid].business_id,
                   total_slots |-> services[sid].total_slots]
      mine == SelectSeq(<<NewService, InitService>>,
                        LAMBDA sid : sid \in DOMAIN services /\ services[sid].business_id = businessID) IN
    [i \in 1..Len(mine) |-> row(mine[i])]

\* serviceRepo.ListByBusinessID and the responses
ListServices(w) ==
  /\ pc[w] = "ls_list"
  /\ Return(w, [NoResult EXCEPT !.kind = "ok", !.services = ListByBusinessID(req[w].bid)])
  /\ UNCHANGED <<services, slots, tickets, lock, now, minted, req, tmp, did>>

\* ---------------------------------------------------------------- Scan
AnyBusiness(p, business_id) == TRUE

\* payload.BusinessID != req.BusinessID
SameBusiness(p, business_id) == p.bid = UUIDString[business_id]

\* a lookup that sees active tickets only
FindActiveByHMAC(hmacDigest) ==
  {t \in DOMAIN tickets : tickets[t].hmac_digest = hmacDigest /\ tickets[t].status = TicketStatusActive}

\* a lookup that resolves the digest to the slot and returns the ticket that
\* holds the slot now
FindBySlotOfHMAC(hmacDigest) ==
  {t \in DOMAIN tickets :
     \E u \in DOMAIN tickets :
       /\ tickets[u].hmac_digest = hmacDigest
       /\ tickets[t].slot_id = tickets[u].slot_id
       /\ \A o \in DOMAIN tickets : tickets[o].slot_id = tickets[u].slot_id => o <= t}

\* SELECT ... FROM tickets WHERE hmac_digest = $1
FindByHMAC(hmacDigest) == {t \in DOMAIN tickets : tickets[t].hmac_digest = hmacDigest}

BadRequest(message) == [NoResult EXCEPT !.kind = "BadRequest", !.message = message]

\* the payload of the QR string that the successful CheckIn of ticket t returned
Issued(t) ==
  [v |-> 1, tid |-> TicketUUID(t), sid |-> UUIDString[tickets[t].service_id],
   bid |-> UUIDString[services[tickets[t].service_id].business_id],
   slot |-> tickets[t].slot_number, iat |-> tickets[t].issued_at, hmac |-> tickets[t].hmac_digest]

\* the QR strings a scanner is shown: encoded payloads and a string that is no base64
ScanStart(w) ==
  /\ \E b \in Businesses,
        q \in {Encoded(p) : p \in UNION {Altered(Issued(t)) : t \in DOMAIN tickets} \cup {Unissued}} \cup {NoBase64} :
       Begin(w, [NoReq EXCEPT !.op = "Scan", !.bid = b, !.qr = q], "sc_decode")
  /\ UNCHANGED <<services, slots, tickets, lock, now, minted>>

\* qr.Decode and the comparison of the payload's business with the caller's
ScanDecode(w) ==
  /\ pc[w] = "sc_decode"
  /\ LET decoded == Decoded(req[w].qr) IN
       IF ~decoded.ok
       THEN Return(w, BadRequest("invalid QR payload")) /\ UNCHANGED tmp
       ELSE IF ~SameBusiness(decoded.p, req[w].bid)
       THEN Return(w, Result("Forbidden")) /\ UNCHANGED tmp
       ELSE /\ tmp' = [tmp EXCEPT ![w].payload = decoded.p]
            /\ Goto(w, "sc_business")
            /\ UNCHANGED result
  /\ UNCHANGED <<services, slots, tickets, lock, now, minted, req, did>>

\* businessRepo.FindByID and payload.Verify under the business's key
ScanBusiness(w) ==
  /\ pc[w] = "sc_business"
  /\ IF ~Verify(tmp[w].payload, HMACKey(req[w].bid))
     THEN Return(w, BadRequest("invalid QR signature"))
     ELSE Goto(w, "sc_find") /\ UNCHANGED result
  /\ UNCHANGED <<services, slots, tickets, lock, now, minted, req, tmp, did>>

\* a lookup that stamps the ticket it finds
ScanFindAndStamp(w) ==
  /\ pc[w] = "sc_find"
  /\ LET found == FindByHMAC(tmp[w].payload.hmac) IN
       IF found = {}
       THEN Return(w, Result("ErrNoRows")) /\ UNCHANGED tickets
       ELSE LET t == CHOOSE t \in found : TRUE IN
              /\ tickets' = TicketUpdateStatus(tickets, t, TicketStatusReleased, now)
              /\ Return(w, [NoResult EXCEPT !.kind = "ok", !.slot_number = tickets[t].slot_number,
                                            !.service_id = tickets[t].service_id,
                                            !.status = tickets[t].status])
  /\ UNCHANGED <<services, slots, lock, now, minted, req, tmp, did>>

\* ticketRepo.FindByHMAC and the response; no row is pgx.ErrNoRows, which is
\* no apperror and is handed on as it is; ReleasedAt is always nil
ScanFind(w) ==
  /\ pc[w] = "sc_find"
  /\ LET found == FindByHMAC(tmp[w].payload.hmac) IN
       IF found = {}
       THEN Return(w, Result("ErrNoRows"))
       ELSE LET t == CHOOSE t \in found : TRUE IN
              Return(w, [NoResult EXCEPT !.kind = "ok", !.slot_number = tickets[t].slot_number,
                                         !.service_id = tickets[t].service_id,
                                         !.status = tickets[t].status,
                                         !.released_at = Null])
  /\ UNCHANGED <<services, slots, tickets, lock, now, minted, req, tmp, did>>

Scan(w) ==
  \/ ScanDecode(w)
  \/ ScanBusiness(w)
  \/ ScanFind(w)

Next ==
  \/ \E w \in Procs : CheckInStart(w)
  \/ \E w \in Procs : CheckIn(w)
  \/ \E w \in Procs : CheckInFault(w)
  \/ \E w \in Procs : ReleaseStart(w)
  \/ \E w \in Procs : Release(w)
  \/ \E w \in Procs : ReleaseFail(w)

Spec == Init /\ [][Next]_vars

\* the CheckIn race: every worker issues one CheckIn of the owner on the
\* initial service, no Release runs
RaceCheckInStart(w) ==
  /\ pc[w] = "idle"
  /\ Begin(w, [NoReq EXCEPT !.op = "CheckIn", !.bid = "b1", !.sid = InitService], "ci_service")
  /\ UNCHANGED <<services, slots, tickets, lock, now, minted>>

NextRace ==
  \/ \E w \in Procs : RaceCheckInStart(w)
  \/ \E w \in Procs : CheckIn(w)
  \/ \E w \in Procs : CheckInFault(w)

SpecRace == InitWith(1..RaceWorkers) /\ [][NextRace]_vars

\* service creation next to check-ins on the services it creates
NextService ==
  \/ \E w \in Procs : CreateServiceStart(w)
  \/ \E w \in Procs : CreateService(w)
  \/ \E w \in Procs : CreateServiceFail(w)
  \/ \E w \in Procs : CheckInStart(w)
  \/ \E w \in Procs : CheckIn(w)
  \/ \E w \in Procs : CheckInFault(w)

SpecService == Init /\ [][NextService]_vars

\* one desk that checks in and releases, one gate that scans
Desk == "desk"

Gate == "gate"

InitScan == InitWith({Desk, Gate})

NextScan ==
  \/ CheckInStart(Desk)
  \/ CheckIn(Desk)
  \/ CheckInFault(Desk)
  \/ ReleaseStart(Desk)
  \/ Release(Desk)
  \/ ReleaseFail(Desk)
  \/ ScanStart(Gate)
  \/ Scan(Gate)

SpecScan == InitScan /\ [][NextScan]_vars

\* one desk that creates services, checks in and releases, one call after the
\* other, and a second caller that reads the statistics meanwhile
NextDesk ==
  \/ CreateServiceStart(Desk)
  \/ CreateService(Desk)
  \/ CreateServiceFail(Desk)
  \/ CheckInStart(Desk)
  \/ CheckIn(Desk)
  \/ CheckInFault(Desk)
  \/ ReleaseStart(Desk)
  \/ Release(Desk)
  \/ ReleaseFail(Desk)
  \/ StatsStart(Gate)
  \/ GetServiceStats(Gate)

SpecDesk == InitScan /\ [][NextDesk]_vars

\* ---------------------------------------------------------------- the ticket store on its own
\* PostgresTicketRepository.Create and UpdateStatus called by a caller of its
\* own, with ids that are and are not in the table, digests (of the payloads of
\* two tickets of the first service) that are and are not stored already and
\* both statuses; no statement fails for storage reasons
InitOne == InitWith({Desk})

TicketCreateStart(w) ==
  /\ \E id \in 1..MaxTickets, n \in 1..MaxTickets, sl \in DOMAIN slots :
       Begin(w, [NoReq EXCEPT !.op = "Create", !.sid = slots[sl].service_id, !.tid = id,
                              !.slot = sl, !.status = TicketStatusActive,
                              !.hmac = Sign(Payload(TicketUUID(n), UUIDString[InitService], UUIDString["b1"], 1, 1),
                                            HMACKey("b1")).p.hmac], "tc_insert")
  /\ UNCHANGED <<services, slots, tickets, lock, now, minted>>

\* INSERT INTO tickets (...) VALUES (...): id is the primary key, no other
\* column of the table is unique
TicketRepoCreate(w) ==
  /\ pc[w] = "tc_insert"
  /\ IF req[w].tid \in DOMAIN tickets
     THEN /\ Return(w, Result("UniqueViolation"))
          /\ UNCHANGED <<tickets, now, did>>
     ELSE \E t \in Clock :
            /\ now' = t
            /\ tickets' = TicketCreate(tickets, req[w].tid,
                            [service_id |-> req[w].sid, slot_id |-> req[w].slot,
                             slot_number |-> req[w].slot[2], status |-> req[w].status,
                             hmac_digest |-> req[w].hmac, issued_at |-> t,
                             released_at |-> Null])
            /\ did' = [did EXCEPT ![w] = @ \cup {"insert"}]
            /\ Return(w, Result("ok"))
  /\ UNCHANGED <<services, slots, lock, minted, req, tmp>>

TicketUpdateStatusStart(w) ==
  /\ \E id \in 1..MaxTickets, st \in {TicketStatusActive, TicketStatusReleased} :
       Begin(w, [NoReq EXCEPT !.op = "UpdateStatus", !.tid = id, !.status = st], "tu_exec")
  /\ UNCHANGED <<services, slots, tickets, lock, now, minted>>

\* UPDATE tickets SET status = $2, released_at = CASE ... END WHERE id = $1,
\* run with Exec: the number of rows it changed is not looked at
TicketRepoUpdateStatus(w) ==
  /\ pc[w] = "tu_exec"
  /\ \E t \in Clock :
       /\ now' = t
       /\ IF req[w].tid \in DOMAIN tickets
          THEN /\ tickets' = TicketUpdateStatus(tickets, req[w].tid, req[w].status, t)
               /\ did' = [did EXCEPT ![w] = @ \cup {"ticket_update"}]
          ELSE UNCHANGED <<tickets, did>>
  /\ Return(w, Result("ok"))
  /\ UNCHANGED <<services, slots, lock, minted, req, tmp>>

NextStore ==
  \/ TicketCreateStart(Desk)
  \/ TicketRepoCreate(Desk)
  \/ TicketUpdateStatusStart(Desk)
  \/ TicketRepoUpdateStatus(Desk)

SpecStore == InitOne /\ [][NextStore]_vars

\* ---------------------------------------------------------------- the route stack
\* The routes of the fiber app in the order main registers them.  A path is the
\* sequence of its segments.  A route registered with Use matches every method
\* and every path that starts with its prefix; a route registered with Get or
\* Post matches its method and the whole path, ":id" standing for any segment.
\* A handler that calls c.Next() hands the request to the next route of the
\* stack that matches it.
Use(prefix, handler, roles) == [use |-> TRUE, method |-> "USE", path |-> prefix, handler |-> handler, roles |-> roles]

Add(method, path, handler) == [use |-> FALSE, method |-> method, path |-> path, handler |-> handler, roles |-> {}]

Routes ==
  << Use(<< >>, "recover", {}),
     Use(<< >>, "logger", {}),
     Use(<< >>, "cors", {}),
     Add("GET", <<"health">>, "health"),
     Add("POST", <<"api", "v1", "auth", "business", "register">>, "BusinessRegister"),
     Add("POST", <<"api", "v1", "auth", "business", "login">>, "BusinessLogin"),
     Add("POST", <<"api", "v1", "auth", "customer", "login">>, "CustomerLogin"),
     Use(<<"api", "v1">>, "AuthMiddleware", {}),
     Use(<<"api", "v1", "tickets">>, "RoleMiddleware", {"business"}),
     Add("POST", <<"api", "v1", "tickets", "checkin">>, "CheckIn"),
     Add("POST", <<"api", "v1", "tickets", "scan">>, "Scan"),
     Add("POST", <<"api", "v1", "tickets", ":id", "release">>, "Release"),
     Use(<<"api", "v1", "services">>, "RoleMiddleware", {"business"}),
     Add("POST", <<"api", "v1", "services">>, "CreateService"),
     Add("GET", <<"api", "v1", "services">>, "ListServices"),
     Add("GET", <<"api", "v1", "services", ":id">>, "GetService"),
     Add("GET", <<"api", "v1", "services", ":id", "stats">>, "GetServiceStats"),
     Use(<<"api", "v1", "tickets">>, "RoleMiddleware", {"customer"}),
     Add("GET", <<"api", "v1", "tickets", ":id">>, "GetTicket") >>

Paths ==
  { <<"health">>,
    <<"api", "v1", "auth", "business", "login">>,
    <<"api", "v1", "tickets", "checkin">>,
    <<"api", "v1", "tickets", "scan">>,
    <<"api", "v1", "tickets", "t1", "release">>,
    <<"api", "v1", "tickets", "t1">>,
    <<"api", "v1", "services">>,
    <<"api", "v1", "services", "s1">>,
    <<"api", "v1", "services", "s1", "stats">>,
    <<"api", "v1", "customers">> }

\* Route.match
match(route, method, path) ==
  /\ route.use \/ route.method = method
  /\ IF route.use THEN Len(route.path) <= Len(path) ELSE Len(route.path) = Len(path)
  /\ \A k \in 1..Len(route.path) : route.path[k] = ":id" \/ route.path[k] = path[k]

\* App.next: the first route after index that matches, 0 when there is none
next(index, method, path) ==
  IF \E i \in (index + 1)..Len(Routes) : match(Routes[i], method, path)
  THEN Min({i \in (index + 1)..Len(Routes) : match(Routes[i], method, path)})
  ELSE 0

Matched(w) == next(tmp[w].index, req[w].method, req[w].path)

\* a request with the token of a business, of a customer or without a valid token ("")
RequestStart(w) ==
  /\ \E role \in {"business", "customer", ""}, method \in {"GET", "POST"}, path \in Paths :
       Begin(w, [NoReq EXCEPT !.op = "Request", !.role = role, !.method = method, !.path = path], "next")
  /\ UNCHANGED <<services, slots, tickets, lock, now, minted>>

\* recover, logger and cors hand every GET and POST on
GlobalMiddleware(w) ==
  /\ pc[w] = "next"
  /\ Matched(w) # 0
  /\ Routes[Matched(w)].handler \in {"recover", "logger", "cors"}
  /\ tmp' = [tmp EXCEPT ![w].index = Matched(w)]
  /\ UNCHANGED <<services, slots, tickets, lock, now, minted, pc, req, result, did>>

AuthMiddleware(w) ==
  /\ pc[w] = "next"
  /\ Matched(w) # 0
  /\ Routes[Matched(w)].handler \in {"AuthMiddleware"}
  /\ IF req[w].role = ""
     THEN Return(w, Result("Unauthorized")) /\ UNCHANGED tmp
     ELSE /\ tmp' = [tmp EXCEPT ![w].index = Matched(w), ![w].role = req[w].role]
          /\ UNCHANGED <<pc, result>>
  /\ UNCHANGED <<services, slots, tickets, lock, now, minted, req, did>>

RoleMiddleware(w) ==
  /\ pc[w] = "next"
  /\ Matched(w) # 0
  /\ Routes[Matched(w)].handler \in {"RoleMiddleware"}
  /\ IF tmp[w].role \in Routes[Matched(w)].roles
     THEN tmp' = [tmp EXCEPT ![w].index = Matched(w)] /\ UNCHANGED <<pc, result>>
     ELSE Return(w, Result("Forbidden")) /\ UNCHANGED tmp
  /\ UNCHANGED <<services, slots, tickets, lock, now, minted, req, did>>

\* the request reaches the handler of an endpoint
Handler(w) ==
  /\ pc[w] = "next"
  /\ Matched(w) # 0
  /\ ~Routes[Matched(w)].use
  /\ Return(w, [NoResult EXCEPT !.kind = "handled", !.handler = Routes[Matched(w)].handler])
  /\ UNCHANGED <<services, slots, tickets, lock, now, minted, req, tmp, did>>

\* no route is left for the request: fiber answers for the app
NoRoute(w) ==
  /\ pc[w] = "next"
  /\ Matched(w) = 0
  /\ Return(w, Result("NoRoute"))
  /\ UNCHANGED <<services, slots, tickets, lock, now, minted, req, tmp, did>>

NextRouter ==
  \/ RequestStart(Desk)
  \/ GlobalMiddleware(Desk)
  \/ AuthMiddleware(Desk)
  \/ RoleMiddleware(Desk)
  \/ Handler(Desk)
  \/ NoRoute(Desk)

SpecRouter == InitOne /\ [][NextRouter]_vars

\* ---------------------------------------------------------------- fair scheduling
\* CheckIn and Release calls of two workers in which no statement fails for
\* storage reasons: a call that can take its next step takes it in the end
\* (every request runs on a goroutine of its own and the database serves
\* every connection)
NextFair ==
  \/ \E w \in Procs : CheckInStart(w)
  \/ \E w \in Procs : CheckIn(w)
  \/ \E w \in Procs : ReleaseStart(w)
  \/ \E w \in Procs : Release(w)

SpecFair ==
  /\ Init
  /\ [][NextFair]_vars
  /\ \A w \in Workers : WF_vars(CheckIn(w) \/ Release(w))

\* ---------------------------------------------------------------- the reads of a second caller
\* one caller creates a service and checks in, a second one reads services,
\* lists and statistics under both businesses meanwhile
NextTenant ==
  \/ CreateServiceStart(Desk)
  \/ CreateService(Desk)
  \/ CreateServiceFail(Desk)
  \/ CheckInStart(Desk)
  \/ CheckIn(Desk)
  \/ GetServiceStart(Gate)
  \/ GetService(Gate)
  \/ ListServicesStart(Gate)
  \/ ListServices(Gate)
  \/ StatsStart(Gate)
  \/ GetServiceStats(Gate)

SpecTenant == InitScan /\ [][NextTenant]_vars

\* ---------------------------------------------------------------- a service of one slot
\* one caller creates a service and checks in, a second one checks in and
\* releases; no statement fails for storage reasons
NextCapacity ==
  \/ CreateServiceStart(Desk)
  \/ CreateService(Desk)
  \/ \E w \in Procs : CheckInStart(w)
  \/ \E w \in Procs : CheckIn(w)
  \/ ReleaseStart(Gate)
  \/ Release(Gate)

SpecCapacity == InitScan /\ [][NextCapacity]_vars

\* ================================================================ properties
Quiescent == \A w \in Procs : pc[w] \in {"idle", "done"}

Running(w) == pc[w] \notin {"idle", "done"}

Steps(w) == Running(w) /\ pc'[w] # pc[w]

OccupiedSlots(sid) == {id \in SlotsOf(sid) : slots[id].status = SlotStatusOccupied}

ActiveTickets(sid) ==
  {t \in DOMAIN tickets : tickets[t].service_id = sid /\ tickets[t].status = TicketStatusActive}

ActiveOn(id) ==
  {t \in DOMAIN tickets : tickets[t].slot_id = id /\ tickets[t].status = TicketStatusActive}

Succeeded(op) == {w \in Procs : pc[w] = "done" /\ req[w].op = op /\ result[w].kind = "ok"}

Ended(op, kind) == {w \in Procs : pc[w] = "done" /\ req[w].op = op /\ result[w].kind = kind}

\* C1: whenever no call is in flight, every service has as many occupied
\* slots as active tickets.
C1_OccupiedEqualsActive ==
  Quiescent =>
    \A sid \in DOMAIN services :
      Cardinality(OccupiedSlots(sid)) = Cardinality(ActiveTickets(sid))

\* C2: in every state, every active ticket references an occupied slot of its
\* own service and every occupied slot is referenced by exactly one active ticket.
C2_ActiveTicketSlotBijection ==
  /\ \A t \in DOMAIN tickets :
       tickets[t].status = TicketStatusActive =>
         /\ tickets[t].slot_id \in DOMAIN slots
         /\ slots[tickets[t].slot_id].status = SlotStatusOccupied
         /\ slots[tickets[t].slot_id].service_id = tickets[t].service_id
  /\ \A id \in DOMAIN slots :
       slots[id].status = SlotStatusOccupied => Cardinality(ActiveOn(id)) = 1

\* C3: in a race of CheckIns on one service, the successful CheckIns return
\* pairwise distinct slot numbers, all within 1..total_slots.
C3_DistinctSlots ==
  /\ \A w1, w2 \in Succeeded("CheckIn") :
       w1 # w2 => result[w1].slot_number # result[w2].slot_number
  /\ \A w \in Succeeded("CheckIn") :
       result[w].slot_number \in 1..services[req[w].sid].total_slots

C3_Witness ==
  \E w1, w2 \in Succeeded("CheckIn") :
    /\ w1 # w2
    /\ \E w3 \in Procs \ {w1, w2} : pc[w3] \in {"ci_update", "ci_commit", "ci_sign", "ci_insert", "done"}

\* C4: a CheckIn that returned without success has not left the slot it
\* selected occupied without a ticket: the slot is free, or it is held by an
\* active ticket of another CheckIn.
C4_CheckInAllOrNothing ==
  \A w \in Procs :
    (pc[w] = "done" /\ req[w].op = "CheckIn" /\ result[w].kind # "ok" /\ tmp[w].slot # NoSlot) =>
      \/ slots[tmp[w].slot].status = SlotStatusFree
      \/ ActiveOn(tmp[w].slot) # {}

\* C5: no step of a Release that found its ticket already released changes
\* that ticket's released_at or the status of the slot the ticket references.
C5_ReleaseIdempotent ==
  [][\A w \in Procs :
       (Steps(w) /\ req[w].op = "Release" /\ tmp[w].status = TicketStatusReleased) =>
         /\ tickets'[req[w].tid].released_at = tickets[req[w].tid].released_at
         /\ slots'[tmp[w].slot].status = slots[tmp[w].slot].status]_vars

\* C6: of two Release calls for the same ticket at most one performs the slot
\* update.
C6_SlotFreedOnce ==
  \A w1, w2 \in Procs :
    (w1 # w2 /\ req[w1].op = "Release" /\ req[w2].op = "Release" /\ req[w1].tid = req[w2].tid) =>
      ~("slot_update" \in did[w1] /\ "slot_update" \in did[w2])

\* C7: no state shows a released ticket whose slot is still occupied by no
\* active ticket, and a Release that returned an error has not updated the ticket.
C7_ReleaseAtomic ==
  /\ \A t \in DOMAIN tickets :
       tickets[t].status = TicketStatusReleased =>
         \/ slots[tickets[t].slot_id].status = SlotStatusFree
         \/ ActiveOn(tickets[t].slot_id) # {}
  /\ \A w \in Procs :
       (pc[w] = "done" /\ req[w].op = "Release" /\ result[w].kind # "ok") =>
         "ticket_update" \notin did[w]

\* C8: when all N racing CheckIns have returned and none met a storage
\* failure, exactly K = the free slots of the service succeeded, N-K ended in
\* Conflict, and the successful slot numbers are exactly 1..K.
C8_RaceOutcome ==
  (/\ Cardinality(Procs) >= MaxSlots
   /\ \A w \in Procs : pc[w] = "done" /\ result[w].kind \in {"ok", "Conflict"}) =>
    /\ Cardinality(Succeeded("CheckIn")) = MaxSlots
    /\ Cardinality(Ended("CheckIn", "Conflict")) = Cardinality(Procs) - MaxSlots
    /\ {result[w].slot_number : w \in Succeeded("CheckIn")} = 1..MaxSlots

C8_Witness ==
  /\ \A w \in Procs : pc[w] = "done" /\ result[w].kind \in {"ok", "Conflict"}
  /\ Cardinality(Ended("CheckIn", "Conflict")) >= 1
  /\ Cardinality(Succeeded("CheckIn")) >= 2

\* C9: a ticket is inserted active, released_at is set exactly when the
\* status is released, and a released ticket stays released.
C9_Lifecycle ==
  /\ [](\A t \in DOMAIN tickets :
          (tickets[t].released_at # Null) <=> (tickets[t].status = TicketStatusReleased))
  /\ [][/\ \A t \in DOMAIN tickets :
            tickets[t].status = TicketStatusReleased =>
              (t \in DOMAIN tickets' /\ tickets'[t].status = TicketStatusReleased)
        /\ \A t \in DOMAIN tickets' \ DOMAIN tickets :
            tickets'[t].status = TicketStatusActive]_vars

C9_Witness ==
  \E w \in Succeeded("Release"), o \in Procs :
    /\ tickets[req[w].tid].status = TicketStatusReleased
    /\ tickets[req[w].tid].released_at # Null
    /\ o # w /\ req[o].op = "Release" /\ req[o].tid = req[w].tid /\ pc[o] = "r_slot"

\* C10: a CheckIn on a service of another business and a Release of a ticket
\* of another business's service change no slot, no ticket and no row lock in
\* any of their steps, and return Forbidden.
Foreign(w) ==
  \/ /\ req[w].op = "CheckIn"
     /\ req[w].sid \in DOMAIN services
     /\ services[req[w].sid].business_id # req[w].bid
  \/ /\ req[w].op = "Release"
     /\ req[w].tid \in DOMAIN tickets
     /\ services[tickets[req[w].tid].service_id].business_id # req[w].bid

C10_TenancyBeforeMutation ==
  [][\A w \in Procs :
       (Steps(w) /\ Foreign(w)) =>
         /\ UNCHANGED <<services, slots, tickets, lock>>
         /\ pc'[w] = "done" => result'[w].kind = "Forbidden"]_vars

C10_Witness ==
  \E w1, w2 \in Procs :
    /\ Foreign(w1) /\ req[w1].op = "CheckIn" /\ pc[w1] = "done" /\ result[w1].kind = "Forbidden"
    /\ Foreign(w2) /\ req[w2].op = "Release" /\ pc[w2] = "done" /\ result[w2].kind = "Forbidden"
    /\ did[w1] = {} /\ did[w2] = {}

\* ---------------------------------------------------------------- Scan properties
ForeignScan(w) ==
  /\ req[w].op = "Scan"
  /\ Decoded(req[w].qr).ok
  /\ Decoded(req[w].qr).p.bid # UUIDString[req[w].bid]

\* C11: a Scan of a payload that decodes and names another business than the
\* caller's goes no further than the decoding step and ends with Forbidden,
\* whatever its hmac is and whether or not a ticket has that digest
C11_ForeignScanForbidden ==
  \A w \in Procs :
    ForeignScan(w) =>
      /\ pc[w] \in {"sc_decode", "done"}
      /\ pc[w] = "done" => result[w].kind = "Forbidden"

\* a foreign payload that carries the digest of a stored ticket and would not
\* verify under the caller's key was scanned
C11_Witness ==
  \E w \in Procs :
    /\ pc[w] = "done"
    /\ ForeignScan(w)
    /\ FindByHMAC(Decoded(req[w].qr).p.hmac) # {}
    /\ ~Verify(Decoded(req[w].qr).p, HMACKey(req[w].bid))

\* the outcome of a Scan as one function of its request and the store
ScanOutcome(r) ==
  LET decoded == Decoded(r.qr)
      found == FindByHMAC(decoded.p.hmac) IN
    IF ~decoded.ok THEN BadRequest("invalid QR payload")
    ELSE IF decoded.p.bid # UUIDString[r.bid] THEN Result("Forbidden")
    ELSE IF ~Verify(decoded.p, HMACKey(r.bid)) THEN BadRequest("invalid QR signature")
    ELSE IF found = {} THEN Result("ErrNoRows")
    ELSE LET t == CHOOSE t \in found : TRUE IN
           [NoResult EXCEPT !.kind = "ok", !.slot_number = tickets[t].slot_number,
                            !.service_id = tickets[t].service_id, !.status = tickets[t].status]

GenuineScan(w, t) ==
  /\ req[w].op = "Scan"
  /\ t \in DOMAIN tickets
  /\ req[w].qr = Encoded(Issued(t))
  /\ Owns(req[w].bid, services[tickets[t].service_id])

C14_ScanReportsReleasedAt ==
  [][\A w \in Procs : \A t \in DOMAIN tickets :
       GenuineScan(w, t) /\ pc[w] = "sc_find" /\ pc'[w] = "done" =>
         /\ result'[w].kind = "ok"
         /\ result'[w].status = tickets[t].status
         /\ result'[w].released_at = tickets[t].released_at]_vars

\* ---------------------------------------------------------------- codec properties
\* keys to verify under: the keys of the businesses and two that belong to no one
Keys == {HMACKey(b) : b \in Businesses} \cup {<<"k">>, <<"k", "b", "1", "0">>}

\* C15: the QR string of a successful CheckIn decodes without error to a
\* payload of version 1 that names the requested service, the calling business
\* and the claimed slot number; it verifies under the key of that business and
\* under no other non-empty key
C15_IssuedPayloadVerifies ==
  \A w \in Succeeded("CheckIn") :
    LET decoded == Decoded(tmp[w].encoded) IN
      /\ decoded.ok
      /\ decoded.p.v = 1
      /\ decoded.p.sid = UUIDString[req[w].sid]
      /\ decoded.p.bid = UUIDString[req[w].bid]
      /\ decoded.p.slot = result[w].slot_number
      /\ decoded.p.slot = slots[tmp[w].slot].slot_number
      /\ Verify(decoded.p, HMACKey(req[w].bid))
      /\ \A k \in Keys \ {HMACKey(req[w].bid)} : ~Verify(decoded.p, k)

\* a CheckIn returned the QR string of the second slot
C15_Witness ==
  \E w \in Succeeded("CheckIn") :
    /\ Decoded(tmp[w].encoded).ok
    /\ Decoded(tmp[w].encoded).p.slot = 2
    /\ Verify(Decoded(tmp[w].encoded).p, HMACKey(req[w].bid))

\* p and q differ in a signed field
Differs(p, q) ==
  p.v # q.v \/ p.tid # q.tid \/ p.sid # q.sid \/ p.bid # q.bid \/ p.slot # q.slot \/ p.iat # q.iat

\* C16: a payload that Decode accepts, carries the digest of a signed payload
\* and differs from it in one of v, tid, sid, bid, slot, iat does not verify
\* under the key the digest was made with
C16_TamperEvident ==
  \A w \in Procs :
    /\ req[w].op = "Codec" /\ pc[w] = "done" /\ result[w].kind = "ok"
    /\ result[w].payload.hmac = tmp[w].payload.hmac
    /\ Differs(result[w].payload, tmp[w].payload)
    => result[w].message # "verified"

\* Decode has been applied to req[w].qr
Decoding(w) ==
  /\ req[w].op = "Codec"
  /\ pc[w] = "cd_verify" \/ (pc[w] = "done" /\ tmp[w].encoded # <<>>)

WellFormed(p) == p.v = 1 /\ IsUUID(p.tid) /\ IsUUID(p.sid) /\ IsUUID(p.bid)

\* base64url of RFC 4648 with padding: signs of the URL alphabet in groups of
\* four, the last group ending in at most two = signs
IsBase64URL(s) ==
  /\ Len(s) % 4 = 0
  /\ \A i \in 1..Len(s) :
       \/ s[i] \in DOMAIN decodeMap
       \/ s[i] = "=" /\ i >= 3 /\ (i = Len(s) \/ (i = Len(s) - 1 /\ s[Len(s)] = "="))

RoundTrip(w) ==
  Decoding(w) /\ req[w].qr = tmp[w].encoded /\ WellFormed(tmp[w].payload) =>
    result[w].kind # "error" /\ result[w].payload = tmp[w].payload

NoObjectRejected(w) ==
  Decoding(w) /\ req[w].qr \in {EncodeToString(Bytes(s)) : s \in NotObjects} =>
    result[w].kind = "error"

FutureVersions == {EncodeTable[p] : p \in {q \in Shown : q.v # 1}}

\* C18: Decode turns down every payload whose version is not 1, so that Scan of
\* such a payload ends with BadRequest("invalid QR payload")
C18_FutureVersionRejected ==
  \A w \in Procs :
    req[w].op = "Scan" /\ pc[w] = "done" /\ req[w].qr \in FutureVersions =>
      result[w] = BadRequest("invalid QR payload")

\* C19: Decode hands back a payload only if its tid, its sid and its bid are
\* all well-formed identifiers
C19_MalformedIdRejected ==
  \A w \in Procs :
    req[w].op = "Codec" /\ pc[w] = "cd_verify" =>
      /\ IsUUID(result[w].payload.tid)
      /\ IsUUID(result[w].payload.sid)
      /\ IsUUID(result[w].payload.bid)

SlotRows(s) == {id \in DOMAIN slots : slots[id].service_id = s}

\* no CreateService call for s is between its first step and its return
Created(s) ==
  \A w \in Procs : req[w].op = "CreateService" /\ req[w].sid = s => pc[w] = "done"

SlotsComplete(s) ==
  /\ Cardinality(SlotRows(s)) = services[s].total_slots
  /\ {slots[id].slot_number : id \in SlotRows(s)} = 1..services[s].total_slots

\* a CreateService call returns without an error in this step
CreateServiceReturns(w) ==
  /\ req[w].op = "CreateService" /\ pc[w] # "done"
  /\ pc'[w] = "done" /\ result'[w].kind = "ok"

\* C20: whenever no CreateService call is under way, also after one that
\* returned an error, every service has exactly total_slots slot rows, numbered
\* 1..total_slots, and when a CreateService call returns without an error all
\* slot rows of its service are free
C20_ServiceSlotsComplete ==
  /\ [](\A s \in DOMAIN services : Created(s) => SlotsComplete(s))
  /\ [][\A w \in Procs : CreateServiceReturns(w) =>
          /\ req[w].sid \in DOMAIN services'
          /\ \A id \in DOMAIN slots' :
               slots'[id].service_id = req[w].sid => slots'[id].status = SlotStatusFree]_vars

\* ---------------------------------------------------------------- service and pool properties
\* a CreateService request with an empty name or without slots
Invalid(w) == req[w].op = "CreateService" /\ (req[w].name = "" \/ req[w].total <= 0)

\* C21: a CreateService call with an empty name or with total_slots <= 0 ends
\* in its first step with a Validation error, and that step changes no service
\* row and no slot row
C21_InvalidServiceRejected ==
  [][\A w \in Procs :
       (Steps(w) /\ Invalid(w)) =>
         /\ UNCHANGED <<services, slots>>
         /\ pc'[w] = "done" /\ result'[w].kind = "Validation"]_vars

\* a named service without slots was asked for and turned down
C21_Witness ==
  \E w \in Procs :
    /\ req[w].op = "CreateService" /\ req[w].name # "" /\ req[w].total = 0
    /\ pc[w] = "done" /\ result[w].kind = "Validation" /\ did[w] = {}
    /\ NewService \notin DOMAIN services

\* every slot row of the service is occupied
Full(sid) == \A id \in SlotsOf(sid) : slots[id].status = SlotStatusOccupied

\* C23: a CheckIn that asks for a slot of a service all of whose slots are
\* occupied returns Conflict in that step, and no step of it inserts a ticket
\* or changes the status of a slot
C23_FullServiceConflict ==
  [][\A w \in Procs :
       (Steps(w) /\ req[w].op = "CheckIn" /\ pc[w] = "ci_select" /\ Full(req[w].sid)) =>
         /\ pc'[w] = "done" /\ result'[w].kind = "Conflict"
         /\ UNCHANGED <<slots, tickets, lock>>
         /\ did'[w] = {}]_vars

\* a CheckIn met a service with slots, all of them occupied, and returned
\* Conflict
C23_Witness ==
  \E w \in Ended("CheckIn", "Conflict") :
    /\ SlotsOf(req[w].sid) # {} /\ Full(req[w].sid)
    /\ ActiveTickets(req[w].sid) # {}
    /\ did[w] = {}

\* a GetServiceStats call returns its statistics in this step
StatsReturn(w) ==
  /\ req[w].op = "GetServiceStats" /\ pc[w] = "st_count"
  /\ pc'[w] = "done" /\ result'[w].kind = "ok"

\* C22: the statistics a GetServiceStats call returns are those of the slot
\* rows it counted: total is their number, occupied the number of occupied
\* ones and free the rest, so that every report has total = occupied + free
C22_StatsCountSlotRows ==
  /\ [][\A w \in Procs :
          StatsReturn(w) =>
            /\ result'[w].total_slots = Cardinality(SlotsOf(req[w].sid))
            /\ result'[w].occupied = Cardinality(OccupiedSlots(req[w].sid))
            /\ result'[w].free = result'[w].total_slots - result'[w].occupied]_vars
  /\ [](\A w \in Succeeded("GetServiceStats") :
          result[w].total_slots = result[w].occupied + result[w].free)

TicketsOf(sid) == {t \in DOMAIN tickets : tickets[t].service_id = sid}

\* no ticket of the service has been released
Unreleased(sid) == \A t \in TicketsOf(sid) : tickets[t].status = TicketStatusActive

\* the slot is free and no free slot of its service has a lower number
LowestFree(id) ==
  /\ id \in DOMAIN slots /\ slots[id].status = SlotStatusFree
  /\ \A j \in SlotsOf(slots[id].service_id) :
       slots[j].status = SlotStatusFree => slots[id].slot_number <= slots[j].slot_number

\* C24: CheckIns that run one after the other are each given the lowest-numbered
\* slot that is free when they select, and mark that slot and no other
\* occupied; on a service none of whose tickets was released the k-th
\* successful CheckIn holds slot k, and a CheckIn that finds as many tickets as
\* the service has slots returns Conflict
C24_SequentialLowestSlot ==
  /\ [][\A w \in Procs :
          (req[w].op = "CheckIn" /\ pc[w] = "ci_select" /\ Steps(w)) =>
            IF pc'[w] = "done"
            THEN result'[w].kind = "Conflict" /\ ~\E id \in SlotsOf(req[w].sid) : LowestFree(id)
            ELSE LowestFree(tmp'[w].slot) /\ slots[tmp'[w].slot].service_id = req[w].sid]_vars
  /\ [][\A w \in Procs :
          (req[w].op = "CheckIn" /\ pc[w] = "ci_commit" /\ pc'[w] = "ci_sign") =>
            slots' = [slots EXCEPT ![tmp[w].slot].status = SlotStatusOccupied]]_vars
  /\ [](\A w \in Succeeded("CheckIn") :
          Unreleased(req[w].sid) =>
            result[w].slot_number = Cardinality(TicketsOf(req[w].sid)))
  /\ [](\A w \in Ended("CheckIn", "Conflict") :
          Unreleased(req[w].sid) =>
            Cardinality(TicketsOf(req[w].sid)) = Cardinality(SlotsOf(req[w].sid)))

\* a Release of a ticket it found active returns without an error in this step
ReleaseReturns(w) ==
  /\ req[w].op = "Release" /\ tmp[w].status = TicketStatusActive
  /\ pc[w] = "r_slot" /\ pc'[w] = "done" /\ result'[w].kind = "ok"

\* C25: when a Release of an active ticket returns without an error the
\* ticket's slot is free, and if the service was full that slot is the one a
\* CheckIn selecting next is given; a CheckIn that is given a slot goes on with
\* it, and the ticket it inserts has an id no ticket had before
C25_ReleaseRestoresCapacity ==
  /\ [][\A w \in Procs :
          ReleaseReturns(w) =>
            /\ slots'[tmp[w].slot].status = SlotStatusFree
            /\ Full(tmp[w].service_id) =>
                 \A o \in Procs : (NextFreeSlot(o, tmp[w].service_id))' = tmp[w].slot]_vars
  /\ [][\A w \in Procs :
          (req[w].op = "CheckIn" /\ pc[w] = "ci_select" /\ Steps(w)
           /\ \E id \in SlotsOf(req[w].sid) : LowestFree(id)) =>
            pc'[w] # "done" /\ LowestFree(tmp'[w].slot)]_vars
  /\ [][\A w \in Procs :
          (req[w].op = "CheckIn" /\ pc[w] = "ci_insert" /\ pc'[w] = "done" /\ result'[w].kind = "ok") =>
            /\ result'[w].ticket_id \notin DOMAIN tickets
            /\ result'[w].ticket_id \in DOMAIN tickets'
            /\ result'[w].slot_number = slots[tmp[w].slot].slot_number]_vars

\* a full service had a ticket released, and the CheckIn after it holds the
\* released slot number under another ticket id
C25_Witness ==
  \E w \in Succeeded("CheckIn") :
    /\ Cardinality(SlotsOf(req[w].sid)) = 1
    /\ \E t \in TicketsOf(req[w].sid) :
         /\ tickets[t].status = TicketStatusReleased
         /\ tickets[t].slot_number = result[w].slot_number
         /\ t # result[w].ticket_id
    /\ tickets[result[w].ticket_id].status = TicketStatusActive

\* ---------------------------------------------------------------- absent rows
\* the call is about to look up a row that is not there
Absent(w) ==
  \/ req[w].op = "Release" /\ pc[w] = "r_find" /\ req[w].tid \notin DOMAIN tickets
  \/ req[w].op = "CheckIn" /\ pc[w] = "ci_service" /\ req[w].sid \notin DOMAIN services

\* C26: a Release whose ticket_id no ticket has and a CheckIn whose service_id
\* no service has return NotFound in the step that looks the row up, and that
\* step changes no slot and no ticket
C26_AbsentIsNotFound ==
  [][\A w \in Procs :
       (Steps(w) /\ Absent(w)) =>
         /\ pc'[w] = "done" /\ result'[w].kind = "NotFound"
         /\ UNCHANGED <<slots, tickets>>]_vars

\* the payload decodes, names the caller, verifies under the caller's key, and
\* no ticket carries its digest
Orphan(w) ==
  /\ Decoded(req[w].qr).ok
  /\ SameBusiness(Decoded(req[w].qr).p, req[w].bid)
  /\ Verify(Decoded(req[w].qr).p, HMACKey(req[w].bid))
  /\ \A t \in DOMAIN tickets : tickets[t].hmac_digest # Decoded(req[w].qr).p.hmac

\* C27: a Scan of a payload that decodes, names the caller and verifies, and
\* whose digest no ticket carries, returns an error of kind NotFound
C27_OrphanScanNotFound ==
  \A w \in Procs :
    (req[w].op = "Scan" /\ pc[w] = "done" /\ Orphan(w)) => result[w].kind = "NotFound"

\* a step of the store's Create for a ticket whose digest some row holds already
DuplicateDigest(w) ==
  /\ req[w].op = "Create" /\ pc[w] = "tc_insert"
  /\ \E i \in DOMAIN tickets : tickets[i].hmac_digest = req[w].hmac

\* C28: the ticket store never holds two active tickets with the same
\* hmac_digest: Create of a ticket whose hmac_digest is stored already fails
\* with Conflict and stores nothing.
C28_UniqueActiveDigest ==
  /\ [](\A i, j \in DOMAIN tickets :
          (i # j /\ tickets[i].status = TicketStatusActive /\ tickets[j].status = TicketStatusActive)
            => tickets[i].hmac_digest # tickets[j].hmac_digest)
  /\ [][\A w \in Procs : (Steps(w) /\ DuplicateDigest(w)) =>
          /\ result'[w].kind = "Conflict"
          /\ UNCHANGED tickets]_vars

\* a step of the store's UpdateStatus
Updates(w) == Steps(w) /\ req[w].op = "UpdateStatus" /\ pc[w] = "tu_exec"

\* C29: UpdateStatus of the ticket store fails with NotFound when no ticket has
\* the id, fails with InvalidTransition when asked to move a released ticket to
\* active, and changes nothing and returns no error when a released ticket is
\* moved to released.
C29_UpdateStatusContract ==
  [][\A w \in Procs : Updates(w) =>
       IF req[w].tid \notin DOMAIN tickets
       THEN result'[w].kind = "NotFound" /\ UNCHANGED tickets
       ELSE /\ (tickets[req[w].tid].status = TicketStatusReleased /\ req[w].status = TicketStatusActive)
                 => (result'[w].kind = "InvalidTransition" /\ UNCHANGED tickets)
            /\ (tickets[req[w].tid].status = TicketStatusReleased /\ req[w].status = TicketStatusReleased)
                 => (result'[w].kind = "ok" /\ UNCHANGED tickets)]_vars

BusinessHandlers ==
  {"CheckIn", "Scan", "Release", "CreateService", "ListServices", "GetService", "GetServiceStats"}

Answered == {w \in Procs : req[w].op = "Request" /\ pc[w] = "done"}

\* the request is for the route of a handler in hs
RequestFor(w, hs) ==
  \E i \in 1..Len(Routes) :
    ~Routes[i].use /\ Routes[i].handler \in hs /\ match(Routes[i], req[w].method, req[w].path)

\* C30: a request reaches the CheckIn, Scan, Release and service handlers only
\* with the role business, a GET /tickets/:id reaches its handler if and only
\* if the role is customer, and every other role gets Forbidden.
C30_RoleGating ==
  \A w \in Answered :
    /\ (result[w].kind = "handled" /\ result[w].handler \in BusinessHandlers) => req[w].role = "business"
    /\ (RequestFor(w, BusinessHandlers) /\ req[w].role = "customer") => result[w].kind = "Forbidden"
    /\ RequestFor(w, {"GetTicket"}) =>
         /\ (result[w].kind = "handled" /\ result[w].handler = "GetTicket") <=> req[w].role = "customer"
         /\ req[w].role = "business" => result[w].kind = "Forbidden"

\* C31: a CheckIn never waits for a slot row that another transaction holds:
\* its locking SELECT can always run, so with fair scheduling every CheckIn
\* that reaches the slot claim ends with success or Conflict and every call in
\* flight, CheckIn or Release, returns.
C31_CheckInNeverWaits ==
  /\ [](\A w \in Workers : pc[w] = "ci_select" => ENABLED ClaimSelect(w))
  /\ \A w \in Workers :
       (req[w].op = "CheckIn" /\ pc[w] = "ci_select")
         ~> (pc[w] = "done" /\ result[w].kind \in {"ok", "Conflict"})
  /\ \A w \in Workers : Running(w) ~> (pc[w] = "done")

\* two CheckIns hold rows of one service at once: one took the lowest free
\* row, the other skipped it and took the next one
C31_Witness ==
  \E w \in Procs, o \in Procs :
    /\ w # o
    /\ req[w].op = "CheckIn" /\ pc[w] = "ci_update"
    /\ req[o].op = "CheckIn" /\ pc[o] = "ci_update"
    /\ lock[w][1] = lock[o][1] /\ lock[w][2] > lock[o][2]

\* the services of a business
OwnServices(b) == {sid \in DOMAIN services : services[sid].business_id = b}

\* a read of a service, of its statistics or of the list returns in this step
Reads(w) ==
  /\ req[w].op \in {"GetService", "GetServiceStats", "ListServices"}
  /\ Running(w) /\ pc'[w] = "done"

\* what the call is allowed to show: for GetService and GetServiceStats the
\* fields and counts of a service of the caller, for ListServices the rows of
\* the caller's services, newest first, and nothing else
OwnAnswer(w) ==
  /\ req[w].op = "ListServices" =>
       /\ result'[w].kind = "ok"
       /\ {result'[w].services[i].id : i \in DOMAIN result'[w].services} = OwnServices(req[w].bid)
       /\ Len(result'[w].services) = Cardinality(OwnServices(req[w].bid))
       /\ \A i \in DOMAIN result'[w].services :
            /\ result'[w].services[i].business_id = req[w].bid
            /\ result'[w].services[i].total_slots = services[result'[w].services[i].id].total_slots
  /\ (req[w].op # "ListServices" /\ req[w].sid \in OwnServices(req[w].bid)) =>
       /\ result'[w].kind = "ok"
       /\ result'[w].service_id = req[w].sid
  /\ (req[w].op # "ListServices" /\ req[w].sid \notin OwnServices(req[w].bid)) =>
       result'[w] \in {Result("Forbidden"), Result("NotFound")}

\* C32 as stated: a read of a service of another business fails with Forbidden
\* and shows nothing of it, ListServices(b) returns exactly the services of b,
\* and the results of b are those of the run without the services of the other
\* businesses, in which a service that is not b's is absent (NotFound).
C32_NoCrossTenantReads ==
  [][\A w \in Procs : Reads(w) =>
       /\ OwnAnswer(w)
       /\ (req[w].op # "ListServices" /\ req[w].sid \in DOMAIN services \ OwnServices(req[w].bid))
            => result'[w] = Result("Forbidden")
       /\ (req[w].op # "ListServices" /\ req[w].sid \notin OwnServices(req[w].bid))
            => result'[w] = Result("NotFound")]_vars

\* C32, amended: the results of b depend on the services of other businesses
\* only in that the id of an existing one is answered Forbidden where an id
\* that does not exist is answered NotFound; no field or count of it is shown,
\* and ListServices(b) returns exactly the services of b.
C32_ReadsShowOwnData ==
  [][\A w \in Procs : Reads(w) =>
       /\ OwnAnswer(w)
       /\ (req[w].op # "ListServices" /\ req[w].sid \notin OwnServices(req[w].bid)) =>
            result'[w] = IF req[w].sid \in DOMAIN services THEN Result("Forbidden") ELSE Result("NotFound")]_vars

\* the lookups of the other business's service have been answered Forbidden
\* while its own list holds the initial service only
C32_Witness ==
  /\ NewService \in DOMAIN services /\ services[NewService].business_id = "b2"
  /\ \E w \in Ended("GetService", "Forbidden") : req[w].bid = "b1" /\ req[w].sid = NewService

\* C33: in every state reachable by CheckIn and Release calls, a repeated
\* Release of one ticket and later CheckIns among them, no service has more
\* active tickets than total_slots.
C33_CapacityBound ==
  \A sid \in DOMAIN services : Cardinality(ActiveTickets(sid)) <= services[sid].total_slots

C35_Frame ==
  [][\A w \in Procs : (pc'[w] # pc[w] /\ req[w].op \in {"CheckIn", "Release"}) =>
       /\ services' = services
       /\ req[w].op = "CheckIn" =>
            /\ slots' # slots =>
                 /\ "claim" \notin did[w]
                 /\ \E id \in DOMAIN slots :
                      /\ slots[id].service_id = req[w].sid
                      /\ slots[id].status = SlotStatusFree
                      /\ slots' = [slots EXCEPT ![id].status = SlotStatusOccupied]
            /\ tickets' # tickets =>
                 /\ "insert" \notin did[w]
                 /\ \E t \in DOMAIN tickets' \ DOMAIN tickets :
                      /\ DOMAIN tickets' = DOMAIN tickets \cup {t}
                      /\ tickets'[t].service_id = req[w].sid
                      /\ \A u \in DOMAIN tickets : tickets'[u] = tickets[u]
            /\ (pc'[w] = "done" /\ result'[w].kind = "ok") => did'[w] = {"claim", "insert"}
       /\ req[w].op = "Release" =>
            /\ DOMAIN tickets' = DOMAIN tickets
            /\ \A t \in DOMAIN tickets \ {req[w].tid} : tickets'[t] = tickets[t]
            /\ \A id \in DOMAIN slots :
                 slots'[id] # slots[id] =>
                   /\ req[w].tid \in DOMAIN tickets
                   /\ id = tickets[req[w].tid].slot_id
                   /\ slots[id].service_id = tickets[req[w].tid].service_id]_vars

\* a CheckIn has succeeded on one service and a Release of a ticket of the
\* other service has updated the ticket and freed its slot
C35_Witness ==
  \E w \in Succeeded("CheckIn"), o \in Succeeded("Release") :
    /\ did[o] = {"ticket_update", "slot_update"}
    /\ req[w].sid # tickets[req[o].tid].service_id
    /\ tickets[result[w].ticket_id].status = TicketStatusActive

\* C36: a CheckIn ends with Conflict only at its slot selection and only when
\* every slot of the service is occupied or row-locked by another claim in
\* flight; a selection made while no other CheckIn is in flight ends with
\* Conflict exactly when the service has no free slot.
C36_ConflictOnlyWhenFull ==
  [][\A w \in Procs : (req[w].op = "CheckIn" /\ pc[w] # "done" /\ pc'[w] # pc[w]) =>
       /\ (pc'[w] = "done" /\ result'[w].kind = "Conflict") =>
            /\ pc[w] = "ci_select"
            /\ \A id \in SlotsOf(req[w].sid) :
                 slots[id].status = SlotStatusOccupied \/ LockedByOther(w, id)
       /\ (pc[w] = "ci_select" /\ \A o \in Procs \ {w} : req[o].op = "CheckIn" => pc[o] = "done") =>
            ((pc'[w] = "done" /\ result'[w].kind = "Conflict")
               <=> \A id \in SlotsOf(req[w].sid) : slots[id].status = SlotStatusOccupied)]_vars

\* a CheckIn has ended with Conflict on a service whose only slot is free and
\* held by the claim of another CheckIn
C36_Witness ==
  \E w \in Ended("CheckIn", "Conflict"), o \in Procs :
    /\ lock[o] # NoSlot
    /\ SlotsOf(req[w].sid) = {lock[o]}
    /\ slots[lock[o]].status = SlotStatusFree

\* C37: a CheckIn touches no slot row before it has found the service, seen
\* that the caller owns it and loaded the business record: while it claims,
\* and once it has claimed, the service exists and is the caller's; a CheckIn
\* that ends at one of the three lookups, with NotFound, Forbidden or the
\* error of the business lookup, has locked and changed no slot.
C37_ChecksBeforeClaim ==
  /\ [](\A w \in Procs : (req[w].op = "CheckIn" /\ (lock[w] # NoSlot \/ "claim" \in did[w])) =>
          /\ pc[w] \notin {"ci_service", "ci_business", "ci_select"}
          /\ req[w].sid \in DOMAIN services
          /\ services[req[w].sid].business_id = req[w].bid)
  /\ [](\A w \in Procs : (req[w].op = "CheckIn" /\ pc[w] = "done" /\ result[w].kind \in {"NotFound", "Forbidden"}) =>
          did[w] = {} /\ lock[w] = NoSlot)
  /\ [][\A w \in Procs : (req[w].op = "CheckIn" /\ pc[w] \in {"ci_service", "ci_business"} /\ pc'[w] # pc[w]) =>
          /\ slots' = slots /\ lock' = lock /\ tickets' = tickets
          /\ did'[w] = {}
          /\ pc'[w] = "ci_select" =>
               /\ pc[w] = "ci_business"
               /\ req[w].sid \in DOMAIN services
               /\ services[req[w].sid].business_id = req[w].bid]_vars

\* CheckIns have ended with Forbidden and with the error of the business
\* lookup, while every slot is free and no ticket exists
C37_Witness ==
  /\ \E w \in Ended("CheckIn", "Forbidden") : req[w].sid \in DOMAIN services
  /\ \E w \in Ended("CheckIn", "DatabaseError") : tmp[w].slot = NoSlot /\ did[w] = {}
  /\ \A id \in DOMAIN slots : slots[id].status = SlotStatusFree
  /\ tickets = << >>

====
